---------------------------- MODULE Spec2Model ----------------------------
(***************************************************************************)
(* TRACE: the /scan event stream (backend/routes/scan.py) driving the      *)
(* multi-hop ScanOrchestrator (backend/osint/orchestrator.py).             *)
(*                                                                         *)
(* One scan is modelled.  ScanOrchestrator.run is an async generator: it   *)
(* only advances while event_stream awaits its next finding, so the two    *)
(* alternate strictly.  `yielded` holds the finding the generator is       *)
(* suspended on; the orchestrator's actions require it to be empty, the    *)
(* consumer's action requires it to be full.                               *)
(*                                                                         *)
(* A probe (OSINTModule.run) is abstract: one invocation produces a finite *)
(* sequence of findings and then ends, raises, or never returns.  Every    *)
(* probe of the repository builds its findings with parent_id=parent_id,   *)
(* the value the orchestrator passes in.  _run_module buffers a probe's    *)
(* findings and returns them only when the probe is over, so one           *)
(* invocation is one step of the orchestrator.                             *)
(*                                                                         *)
(* Data abstraction.  A username is [key, len]: names are numbered in the  *)
(* order of their first discovery (a probe reporting a new long username   *)
(* reports the next key), len is the string length the extractor tests.    *)
(* A URL is [key].  Optional fields are sets with at most one element.     *)
(* Finding fields that never influence control flow (title, description,   *)
(* severity, source, timestamp, link_label) are left out of this layer.    *)
(***************************************************************************)
EXTENDS Integers, Sequences, FiniteSets, TLC

VARIABLES
    email,              \* scan(): the verified seed email, [local, domain]
    depth,              \* scan(): depth query parameter, 1..3
    stream_pc,          \* event_stream: "init" | "iterating" | "closed"
    events,             \* the SSE events event_stream has yielded, in order
    finding_count,      \* event_stream.finding_count
    pc,                 \* ScanOrchestrator.run: program point
    phase,              \* inside a hop: "call" | "deliver" | "awaiting"
    yielded,            \* the finding run() is suspended on ({} when none)
    results,            \* run(): results of the last _run_module, not yet yielded
    root_id,            \* run(): root_id
    findings,           \* self.findings
    usernames,          \* self.usernames
    bios,               \* self.bios
    locations,          \* self.locations
    found_accounts,     \* self.found_accounts
    found_urls,         \* self.found_urls
    audit_log,          \* self.audit_log, as the set of levels of its entries
    mi,                 \* index into hop1_modules
    usernames_to_check, \* run(): usernames_to_check
    ui,                 \* index into usernames_to_check
    si,                 \* step inside one username's expansion
    urls_to_check,      \* run(): list(set(self.found_urls))[:5]
    wi,                 \* index into urls_to_check
    hi,                 \* hop-3 block, 1..3
    exc,                \* the exception that left run() ({} when none)
    invoked,            \* history: every module.run call, in order
    hop1_usernames,     \* history: self.usernames when hop 1 ended
    raised,             \* history: the exceptions probes have raised
    deadline_fired,     \* clock: SCAN_TIMEOUT_SECONDS have passed since start
    probe_overdue,      \* clock: the awaited probe has passed its deadline
    risk_findings,      \* calculate_risk_score: its argument
    risk,               \* calculate_risk_score: what it returned (<<>> before)
    risk_before,        \* calculate_risk_score: what it returned for the list
                        \* before a finding was appended (<<>> when none was)
    replay,             \* scans compared: the address, what the probes answer,
                        \* and the hash salt of the process of each scan
    emitted,            \* scans compared: the findings emitted, per depth
    reported,           \* usernames: the findings hop 1 brings, in order
    collector,          \* usernames: the address, the findings collected so
                        \* far and the aggregate _collect_metadata has built
    rechecked,          \* usernames: the findings UsernameChecker has emitted
    location_reports,   \* locations: the findings with data.location that
                        \* probes bring and _collect_metadata has yet to see
    location_hints,     \* locations: self.locations, the seed of
                        \* LocationInference
    location_run,       \* locations: what LocationInference.run did (<<>> before)
    now,                \* time.time(), in seconds
    verification_store, \* verification_store._store: per address, {} or {record}
    request_limiter,    \* verify_request_limiter._store, per client address
    attempt_limiter,    \* verify_attempt_limiter._store, per "ip:email"
    scan_limiter,       \* scan_limiter._store, per address
    scan_tokens,        \* routes/verify.py _scan_tokens: [token, email, expiry]
    response,           \* the response to the last request
    issued,             \* history: the scan tokens issued, with the time
    accepted,           \* history: the tokens validate_scan_token accepted
    admitted,           \* history: the scans started, [email, at]
    requests,           \* history: the number of requests made
    jumps,              \* history: the number of times the clock was advanced
    calls,              \* verification_store: per thread, the call of create
                        \* or verify it is in and the point it has reached
    verdicts,           \* history: per address, what the last call of verify
                        \* returned, with the counts for the code it was about
    serial,             \* history: per address, the number of codes issued
    attempt             \* history: the last request to /verify/confirm of a
                        \* client that keeps confirming: [nr, email, at]

vars == << email, depth, stream_pc, events, finding_count, pc,
           phase, yielded, results, root_id, findings, usernames, bios,
           locations, found_accounts, found_urls, audit_log, mi,
           usernames_to_check, ui, si, urls_to_check, wi, hi, exc, invoked,
           hop1_usernames, raised, deadline_fired, probe_overdue,
           risk_findings, risk, risk_before, replay, emitted, reported,
           collector, rechecked, location_reports, location_hints,
           location_run, now, verification_store,
           request_limiter, attempt_limiter, scan_limiter, scan_tokens,
           response, issued, accepted, admitted, requests, jumps, calls,
           verdicts, serial, attempt >>

-----------------------------------------------------------------------------
(* Bounds of the model *)

\* Findings the probes of one scan produce in total (the root not counted).
MaxFindings == 5

\* Of these, the findings that are profiles (kind "P" below).
MaxProfiles == 1

\* Findings of each kind in a list given to calculate_risk_score.
MaxCritical == 2
MaxHigh == 4
MaxAccounts == 11
MaxLow == 6

\* Requests made to the routes, and advances of the clock between them.
MaxRequests == 6
MaxJumps == 2
MaxCalls == 7
MaxAttempts == 8

\* Findings hop 1 brings to the collection of usernames.
MaxReported == 2

\* Location hints given to the aggregator, and findings with a location
\* collected before it runs.
MaxHints == 3
MaxLocationReports == 2

-----------------------------------------------------------------------------
(* Program constants *)

\* orchestrator.py:280  usernames_to_check = list(self.usernames)[:5]
HOP2_USERNAME_CAP == 5

\* orchestrator.py:330  for url in list(set(self.found_urls))[:5]
WAYBACK_URL_CAP == 5

\* config.py:32
SCAN_TIMEOUT_SECONDS == 90

\* config.py:25-30
VERIFICATION_CODE_EXPIRY_SECONDS == 300
VERIFICATION_MAX_ATTEMPTS == 5
VERIFICATION_LOCKOUT_SECONDS == 900
RATE_LIMIT_VERIFY_PER_HOUR == 10
RATE_LIMIT_SCAN_COOLDOWN_HOURS == 24

\* routes/verify.py:80  time.time() + 600
TOKEN_EXPIRY_SECONDS == 600

\* orchestrator.py:248-263
hop1_modules ==
    << "BreachLookup", "EpieosLookup", "ReverseLookup", "GoogleDork",
       "PasteSearch", "GravatarLookup", "UsernameExtractor",
       "GitHubEmailSearch", "KeybaseLookup", "IntelXSearch",
       "HudsonRockSearch" >>

\* orchestrator.py:286-322: the six invocations made for one username
hop2_steps ==
    << [module |-> "UsernameChecker", platform |-> {}],
       [module |-> "GitHubLookup",    platform |-> {}],
       [module |-> "GitHubSecrets",   platform |-> {}],
       [module |-> "SocialDeepDive",  platform |-> {"reddit"}],
       [module |-> "SocialDeepDive",  platform |-> {"twitter"}],
       [module |-> "SocialDeepDive",  platform |-> {"github"}] >>

\* orchestrator.py:345-378: the three hop-3 blocks
hop3_modules == << "DataBrokerCheck", "LocationInference", "ConnectedAccountFinder" >>

\* modules/__init__.py:41-73: the registry of the probes of each hop
HOP1_MODULES ==
    << "BreachLookup", "EpieosLookup", "ReverseLookup", "GoogleDork",
       "PasteSearch", "GravatarLookup", "UsernameExtractor",
       "GitHubEmailSearch", "KeybaseLookup", "IntelXSearch",
       "HudsonRockSearch" >>

HOP2_MODULES ==
    << "UsernameChecker", "GitHubLookup", "GitHubSecrets", "SocialDeepDive",
       "WaybackLookup", "ProfileScraper" >>

HOP3_MODULES == << "DataBrokerCheck", "LocationInference", "ConnectedAccountFinder" >>

-----------------------------------------------------------------------------
(* Inputs *)

LongName(k) == [key |-> k, len |-> 5]
ShortName   == [key |-> 0, len |-> 2]
Url(k)      == [key |-> k]

\* The verified address: a local part of two characters, or a longer one.
Emails == { [local |-> ShortName,   domain |-> "example.com"],
            [local |-> LongName(1), domain |-> "example.com"] }

Depths == 1..3

\* Salts of the string hash (PYTHONHASHSEED) the process may have started
\* with: 1 happens to iterate a set in discovery order, 3 does not.
HashSeeds == {1, 3}

\* What a probe can report in one finding: "U" a USERNAME finding carrying a
\* new username; "P" an ACCOUNT finding of a profile (platform, a two-letter
\* username, url, bio, location).
AnswerKinds == {"U", "P"}

\* How a probe invocation is over: its sequence is exhausted, it raises
\* asyncio.TimeoutError, it raises another Exception, or it never returns
\* (stuck on its first request, before any finding).
Modes == {"end", "TimeoutError", "Exception", "hang"}

RECURSIVE SeqsUpTo(_, _)
SeqsUpTo(S, n) ==
    IF n = 0 THEN { <<>> }
    ELSE LET shorter == SeqsUpTo(S, n - 1)
         IN  shorter \cup { Append(s, x) : s \in { t \in shorter : Len(t) = n - 1 }, x \in S }

Min(a, b) == IF a < b THEN a ELSE b

-----------------------------------------------------------------------------
(* Python's set iteration order *)

\* list(a_set): the elements in the order of their salted hash values, which
\* is unrelated to the order of insertion.
HashKey(seed, x) == (x.key * seed) % 11

RECURSIVE SetToList(_, _)
SetToList(S, seed) ==
    IF S = {} THEN <<>>
    ELSE LET first == CHOOSE x \in S : \A y \in S : HashKey(seed, x) <= HashKey(seed, y)
         IN  << first >> \o SetToList(S \ {first}, seed)

Take(s, n) == SubSeq(s, 1, Min(Len(s), n))

SeqToSet(s) == { s[k] : k \in 1..Len(s) }

\* An optional value as the list of what is present.
OptSeq(opt) == IF opt = {} THEN <<>> ELSE << CHOOSE x \in opt : TRUE >>


-----------------------------------------------------------------------------
(* Text: a str is the sequence of its characters; a fixed phrase is one     *)
(* token                                                                    *)

Digit(k) == << "0", "1", "2", "3", "4", "5", "6", "7", "8", "9" >>[(k % 10) + 1]

\* The characters of a username: "ab" for the short one, "user<k>" for the
\* k-th long one.
Chars(name) ==
    IF name.len < 3 THEN << "a", "b" >>
    ELSE << "u", "s", "e", "r", Digit(name.key) >>

\* The address as the str the orchestrator is given.
EmailText(e) == Chars(e.local) \o << "@", e.domain >>

\* needle in haystack
Contains(haystack, needle) ==
    \E i \in 1..(Len(haystack) - Len(needle) + 1) :
        SubSeq(haystack, i, i + Len(needle) - 1) = needle

\* orchestrator.py:92-101
MaskEmail(text) ==
    IF "@" \notin SeqToSet(text) THEN << "***@***" >>
    ELSE LET at == CHOOSE i \in 1..Len(text) :
                      text[i] = "@" /\ \A j \in 1..(i - 1) : text[j] # "@"
             local == SubSeq(text, 1, at - 1)
             domain == SubSeq(text, at + 1, Len(text))
             masked == IF Len(local) <= 2 THEN << local[1], "***" >>
                       ELSE << local[1], "***", local[Len(local)] >>
         IN  masked \o << "@" >> \o domain

-----------------------------------------------------------------------------
(* Findings *)

NoData == [username |-> {}, platform |-> {}, url |-> {}, bio |-> {}, location |-> {}]

\* orchestrator.py:222-231: the root finding; parent_id keeps its default None
RootFinding(id, address) ==
    [id |-> id, type |-> "email", parent_id |-> {}, source_url |-> {}, data |-> NoData,
     title |-> MaskEmail(EmailText(address)),
     description |-> << "Seed email - starting aggressive scan" >>]

\* A module that leaves parent_id out of the findings it builds.
ProbeFindingOrphan(kind, id, parent_id, name, url) ==
    [id |-> id, type |-> IF kind = "U" THEN "username" ELSE "account",
     parent_id |-> {}, source_url |-> {},
     data |-> [NoData EXCEPT !.username = IF kind = "U" THEN {name} ELSE {}]]

\* A module that passes the finding's own id as its parent.
ProbeFindingOwnParent(kind, id, parent_id, name, url) ==
    [id |-> id, type |-> IF kind = "U" THEN "username" ELSE "account",
     parent_id |-> {id}, source_url |-> {},
     data |-> [NoData EXCEPT !.username = IF kind = "U" THEN {name} ELSE {}]]

\* A module that gives its findings the id of their parent.
ProbeFindingParentId(kind, id, parent_id, name, url) ==
    [id |-> parent_id, type |-> IF kind = "U" THEN "username" ELSE "account",
     parent_id |-> {parent_id}, source_url |-> {},
     data |-> [NoData EXCEPT !.username = IF kind = "U" THEN {name} ELSE {}]]

\* A finding as every module builds it: id=str(uuid.uuid4()) (a fresh value),
\* parent_id=parent_id (the argument of run).
ProbeFinding(kind, id, parent_id, name, url) ==
    IF kind = "U"
    THEN [id |-> id, type |-> "username", parent_id |-> {parent_id},
          source_url |-> {},
          data |-> [NoData EXCEPT !.username = {name}],
          title |-> << "Username: " >> \o Chars(name),
          description |-> << "Potential username extracted from email" >>]
    ELSE [id |-> id, type |-> "account", parent_id |-> {parent_id},
          source_url |-> {url},
          data |-> [username |-> {ShortName}, platform |-> {"github"},
                    url |-> {url}, bio |-> {"bio"}, location |-> {"city"}],
          title |-> << "GitHub: " >> \o Chars(ShortName),
          description |-> << "GitHub profile" >>]

\* github.py:306-321: the finding GitHubLookup builds for the public email of
\* a profile
PublicEmailFinding(id, parent_id, address, url) ==
    [id |-> id, type |-> "personal_info", parent_id |-> {parent_id},
     source_url |-> {url},
     data |-> [username |-> {}, platform |-> {}, url |-> {}, bio |-> {},
               location |-> {}, email |-> {address}],
     title |-> << "Public Email: " >> \o EmailText(address),
     description |-> << "Email publicly displayed on GitHub profile" >>]

-----------------------------------------------------------------------------
(* ScanOrchestrator._collect_metadata (orchestrator.py:135-176), on the     *)
(* aggregate [findings, usernames, bios, locations, found_accounts,         *)
(* found_urls]                                                              *)

\* dict.get(key, default)
Get(d, key, default) == IF key \in DOMAIN d THEN d[key] ELSE default

CollectUsernames(names, f) ==
    LET fromData == IF f.type = "username" \/ f.data.username # {}
                    THEN { u \in f.data.username : u.len >= 3 }
                    ELSE {}
        fromAccount == IF f.type = "account" /\ f.data.platform # {} /\ f.data.username # {}
                       THEN { u \in f.data.username : u.len >= 3 }
                       ELSE {}
    IN  names \cup fromData \cup fromAccount

CollectMetadata(agg, f) ==
    [agg EXCEPT
       !.usernames = CollectUsernames(@, f),
       !.bios = @ \o OptSeq(f.data.bio),
       !.locations = IF f.data.location # {}
                     THEN Append(@, [location |-> f.data.location,
                                     source_type |-> Get(f.data, "source", "unknown"),
                                     confidence |-> Get(f.data, "confidence",
                                                        [kind |-> "float", value |-> 500])])
                     ELSE @,
       !.found_accounts = IF f.type = "account" /\ f.data.platform # {} /\ f.data.username # {}
                          THEN Append(@, [platform |-> f.data.platform,
                                          username |-> f.data.username,
                                          url |-> f.data.url])
                          ELSE @,
       !.found_urls = @ \o OptSeq(f.data.url) \o OptSeq(f.source_url)]

\* orchestrator.py:117-124 for one finding: the probe builds it, then
\* self.findings.append(finding) and self._collect_metadata(finding).
Receive(agg, kind, parent_id) ==
    LET f == ProbeFinding(kind, Len(agg.findings) + 1, parent_id,
                          LongName(Cardinality(agg.usernames) + 1),
                          Url(Cardinality(SeqToSet(agg.found_urls)) + 1))
    IN  CollectMetadata([agg EXCEPT !.findings = Append(@, f)], f)

\* orchestrator.py:117: the async for over module.run(seed, depth, parent_id)
RECURSIVE Produce(_, _, _)
Produce(agg, kinds, parent_id) ==
    IF kinds = <<>> THEN agg
    ELSE Produce(Receive(agg, Head(kinds), parent_id), Tail(kinds), parent_id)

Aggregate ==
    [findings |-> findings, usernames |-> usernames, bios |-> bios,
     locations |-> locations, found_accounts |-> found_accounts,
     found_urls |-> found_urls]

\* A _run_module with the except asyncio.TimeoutError clause only.
CaughtTimeoutOnly(mode) == mode = "TimeoutError"

\* orchestrator.py:128-131: the exceptions _run_module absorbs
Caught(mode) == mode \in {"TimeoutError", "Exception"}

\* The answers a probe may still give within the bounds.
Profiles(fs) == Cardinality({ k \in 1..Len(fs) : fs[k].type = "account" })
KindsOf(s, kind) == Cardinality({ k \in 1..Len(s) : s[k] = kind })
Answers ==
    { s \in SeqsUpTo(AnswerKinds, MaxFindings - (Len(findings) - 1)) :
        KindsOf(s, "P") <= MaxProfiles - Profiles(findings) }

\* orchestrator.py:114, 126, 129, 131: the levels of the entries one call logs
LogLevels(kinds, mode) ==
    {"INFO"}
    \cup (IF kinds # <<>> THEN {"SUCCESS"} ELSE {})
    \cup (IF mode = "TimeoutError" THEN {"WARN"} ELSE {})
    \cup (IF mode = "Exception" THEN {"ERROR"} ELSE {})

\* A _run_module that gives its results back only when the probe ended
\* without an exception.
ReturnedOnSuccess(gathered, mode) == IF mode = "end" THEN gathered ELSE <<>>

\* orchestrator.py:133: return results, after the try statement
Returned(gathered, mode) == gathered

\* orchestrator.py:103-133, called at (module, seed) in hop `hop`.
RunModule(module, seed, hop) ==
    \E mode \in Modes :
    \E kinds \in Answers :
        LET agg == Produce(Aggregate, kinds, root_id)
            new == SubSeq(agg.findings, Len(findings) + 1, Len(agg.findings))
        IN  /\ mode = "hang" => kinds = <<>>
            /\ invoked' = Append(invoked, [module |-> module, seed |-> seed, hop |-> hop])
            /\ findings' = agg.findings
            /\ usernames' = agg.usernames
            /\ bios' = agg.bios
            /\ locations' = agg.locations
            /\ found_accounts' = agg.found_accounts
            /\ found_urls' = agg.found_urls
            /\ audit_log' = audit_log \cup LogLevels(kinds, mode)
            /\ raised' = raised \cup (IF mode \in {"TimeoutError", "Exception"}
                                      THEN {mode} ELSE {})
            /\ IF mode = "hang"
               THEN /\ phase' = "awaiting"
                    /\ UNCHANGED << results, pc, exc >>
               ELSE IF mode = "end" \/ Caught(mode)
               THEN /\ phase' = "deliver"
                    /\ results' = Returned(new, mode)
                    /\ UNCHANGED << pc, exc >>
               ELSE /\ phase' = "none"
                    /\ pc' = "raised"
                    /\ exc' = {mode}
                    /\ UNCHANGED results

EmailSeed == [kind |-> "email", value |-> {email}]
UsernameSeed(u, platform) ==
    IF platform = {} THEN [kind |-> "username", value |-> {u}]
    ELSE [kind |-> "platform:username", value |-> {u}, platform |-> platform]
UrlSeed(w) == [kind |-> "url", value |-> {w}]
JsonSeed == [kind |-> "json"]

-----------------------------------------------------------------------------
(* calculate_risk_score (risk.py:6-81)                                      *)

\* str.lower on one character
LowerChar(c) ==
    CASE c = "P" -> "p" [] c = "H" -> "h" [] c = "L" -> "l" [] c = "N" -> "n"
      [] c = "U" -> "u" [] c = "G" -> "g" [] c = "S" -> "s" [] c = "B" -> "b"
      [] c = "A" -> "a" [] c = "F" -> "f" [] c = "C" -> "c"
      [] OTHER -> c

Lower(text) == [k \in 1..Len(text) |-> LowerChar(text[k])]

\* ' '.join(texts)
RECURSIVE Join(_)
Join(texts) ==
    IF texts = <<>> THEN <<>>
    ELSE IF Len(texts) = 1 THEN texts[1]
    ELSE texts[1] \o << " " >> \o Join(Tail(texts))

Count(fs, P(_)) == Cardinality({ k \in 1..Len(fs) : P(fs[k]) })

\* Bands that start above their thresholds.
RiskLevelAbove(score) ==
    IF score > 70 THEN "CRITICAL"
    ELSE IF score > 50 THEN "HIGH"
    ELSE IF score > 30 THEN "MEDIUM"
    ELSE "LOW"

\* risk.py:67-75
RiskLevel(score) ==
    IF score >= 70 THEN "CRITICAL"
    ELSE IF score >= 50 THEN "HIGH"
    ELSE IF score >= 30 THEN "MEDIUM"
    ELSE "LOW"

\* A cap that wraps around instead of saturating.
CapWrapped(score) == score % 101

\* risk.py:69
Cap(score) == Min(score, 100)

\* risk.py:6-77
calculate_risk_score(fs) ==
    LET critical == Count(fs, LAMBDA f : f.severity = "critical")
        high == Count(fs, LAMBDA f : f.severity = "high")
        medium == Count(fs, LAMBDA f : f.severity = "medium")
        low == Count(fs, LAMBDA f : f.severity = "low")
        base == Min(critical * 25, 50) + Min(high * 10, 30)
                + Min(medium * 3, 15) + Min(low * 1, 5)
        titles_lower == [k \in 1..Len(fs) |-> Lower(fs[k].title)]
        descriptions_lower == [k \in 1..Len(fs) |-> Lower(fs[k].description)]
        all_text == Join(titles_lower \o descriptions_lower)
        password == IF Contains(all_text, << "p", "a", "s", "s", "w", "o", "r", "d" >>)
                       /\ (Contains(all_text, << "e", "x", "p", "o", "s", "e", "d" >>)
                           \/ Contains(all_text, << "b", "r", "e", "a", "c", "h" >>))
                    THEN 15 ELSE 0
        address == IF Contains(all_text, << "a", "d", "d", "r", "e", "s", "s" >>)
                      /\ \E w \in { << "h", "o", "m", "e" >>,
                                    << "s", "t", "r", "e", "e", "t" >>,
                                    << "r", "e", "s", "i", "d", "e", "n", "c", "e" >> } :
                            Contains(all_text, w)
                   THEN 15 ELSE 0
        phone == IF Contains(all_text, << "p", "h", "o", "n", "e" >>) THEN 10 ELSE 0
        has_name == \E k \in 1..Len(fs) :
                        /\ Contains(titles_lower[k], << "n", "a", "m", "e" >>)
                        /\ Contains(titles_lower[k], << ":" >>)
        has_location == \E k \in 1..Len(fs) :
                            Contains(titles_lower[k], << "l", "o", "c", "a", "t", "i", "o", "n" >>)
        combo == IF has_name /\ has_location THEN 5 ELSE 0
        account_count == Count(fs, LAMBDA f : f.type = "account")
        many == IF account_count > 10 THEN 5 ELSE 0
        score == Cap(base + password + address + phone + combo + many)
    IN  << score, RiskLevel(score) >>

\* Findings as probes word them, with the severity and type they give.
Scored(severity, type, title, description) ==
    [severity |-> severity, type |-> type, title |-> title, description |-> description]

LeakedPassword == Scored("critical", "breach", << "P", "a", "s", "s", "w", "o", "r", "d", " ", "e", "x", "p", "o", "s", "e", "d" >>, << "B", "r", "e", "a", "c", "h" >>)
LeakedSecret   == Scored("critical", "breach", << "S", "e", "c", "r", "e", "t" >>, << "L", "o", "g" >>)
PhoneNumber    == Scored("high", "personal_info", << "P", "h", "o", "n", "e" >>, << "N", "u", "m", "b", "e", "r" >>)
HomeAddress    == Scored("high", "personal_info", << "H", "o", "m", "e", " ", "a", "d", "d", "r", "e", "s", "s" >>, << "L", "i", "s", "t", "e", "d" >>)
Account        == Scored("medium", "account", << "G", "i", "t", "H", "u", "b", ":", " ", "a", "b" >>, << "P", "r", "o", "f", "i", "l", "e" >>)
Place          == Scored("medium", "personal_info", << "L", "o", "c", "a", "t", "i", "o", "n", ":", " ", "c", "i", "t", "y" >>, << "S", "e", "e", "n" >>)
Username       == Scored("low", "username", << "U", "s", "e", "r", "n", "a", "m", "e", ":", " ", "u", "s", "e", "r", "1" >>, << "G", "u", "e", "s", "s" >>)

RealName       == Scored("high", "personal_info", << "R", "e", "a", "l", " ", "N", "a", "m", "e", ":", " ", "a", "b" >>, << "S", "e", "e", "n" >>)

\* The findings a list may be extended by.
RiskSamples ==
    { LeakedPassword, LeakedSecret, PhoneNumber, HomeAddress, Account, Place,
      Username, RealName }

Repeat(x, n) == [k \in 1..n |-> x]

\* The lists given to calculate_risk_score, by how many of each they hold.
RiskInputs ==
    { Repeat(LeakedPassword, a) \o Repeat(LeakedSecret, b) \o Repeat(PhoneNumber, c)
        \o Repeat(HomeAddress, d) \o Repeat(Account, e) \o Repeat(Place, f)
        \o Repeat(Username, g) :
        a \in 0..1, b \in 0..MaxCritical, c \in 0..MaxHigh, d \in 0..1,
        e \in 0..MaxAccounts, f \in 0..1, g \in 0..MaxLow }

-----------------------------------------------------------------------------
(* The functions and services checked apart from a scan *)

spellings == << reported, collector, rechecked >>

inference == << location_reports, location_hints, location_run >>

functions == << risk_findings, risk, risk_before, replay, emitted, spellings,
               inference >>
threads == << calls, verdicts, serial >>

gateway == << now, verification_store, request_limiter, attempt_limiter,
             scan_limiter, scan_tokens, response, issued, accepted, admitted,
             requests, jumps, threads, attempt >>
units == << functions, gateway >>

\* A RateLimitEntry (rate_limit.py:8-11); lockout_until is {} for None.
NewEntry == [timestamps |-> <<>>, lockout_until |-> {}]

\* The threads that call verification_store, and a thread in no call.
Callers == {1, 2}
NoCall == [pc |-> "idle"]

\* No call of verify has returned.
NoVerdict == [nr |-> 0, issue |-> 0, code |-> 0, at |-> 0, found |-> {},
              success |-> FALSE, error |-> "", removed |-> FALSE,
              compared |-> 0, successes |-> 0]

\* The server has just started: the stores are empty (rate_limit.py:16,
\* verification.py:23, verify.py:16).  A key without an entry is one with the
\* entry is_allowed would create for it.
GatewayStarted ==
    /\ now = 0
    /\ verification_store = [e \in Emails |-> {}]
    /\ request_limiter = NewEntry
    /\ attempt_limiter = [e \in Emails |-> NewEntry]
    /\ scan_limiter = [e \in Emails |-> NewEntry]
    /\ scan_tokens = {}
    /\ response = [route |-> "none", status |-> 0]
    /\ issued = {}
    /\ accepted = <<>>
    /\ admitted = <<>>
    /\ requests = 0
    /\ jumps = 0
    /\ calls = [c \in Callers |-> NoCall]
    /\ verdicts = [e \in Emails |-> NoVerdict]
    /\ serial = [e \in Emails |-> 0]
    /\ attempt = [nr |-> 0, email |-> {}, at |-> 0]


NamesIdle ==
    /\ reported = <<>>
    /\ collector = <<>>
    /\ rechecked = <<>>

InferenceIdle ==
    /\ location_reports = <<>>
    /\ location_hints = <<>>
    /\ location_run = <<>>

\* No call of them is under way.
UnitsIdle ==
    /\ risk_findings = <<>>
    /\ risk = <<>>
    /\ risk_before = <<>>
    /\ replay = <<>>
    /\ emitted = {}
    /\ GatewayStarted
    /\ NamesIdle
    /\ InferenceIdle

-----------------------------------------------------------------------------
(* Initial state: ScanOrchestrator.__init__ (orchestrator.py:74-83) and the *)
(* locals of event_stream (scan.py:58-60)                                   *)

Init ==
    /\ email \in Emails
    /\ depth \in Depths
    /\ stream_pc = "init"
    /\ events = <<>>
    /\ finding_count = 0
    /\ pc = "init"
    /\ phase = "none"
    /\ yielded = {}
    /\ results = <<>>
    /\ root_id = 0
    /\ findings = <<>>
    /\ usernames = {}
    /\ bios = <<>>
    /\ locations = <<>>
    /\ found_accounts = <<>>
    /\ found_urls = <<>>
    /\ audit_log = {}
    /\ mi = 0
    /\ usernames_to_check = <<>>
    /\ ui = 0
    /\ si = 0
    /\ urls_to_check = <<>>
    /\ wi = 0
    /\ hi = 0
    /\ exc = {}
    /\ invoked = <<>>
    /\ hop1_usernames = {}
    /\ raised = {}
    /\ deadline_fired = FALSE
    /\ probe_overdue = FALSE
    /\ UnitsIdle

inputs == << email, depth >>
stream == << stream_pc, events, finding_count >>
aggregate == << findings, usernames, bios, locations, found_accounts, found_urls, audit_log >>
loops == << mi, usernames_to_check, ui, si, urls_to_check, wi, hi >>
history == << invoked, hop1_usernames, raised >>
clocks == << deadline_fired, probe_overdue >>
scan_state == << inputs, stream, pc, phase, yielded, results, root_id, aggregate,
                loops, exc, history, clocks >>

\* No scan is under way: the state of Init for one address and depth.
ScanIdle ==
    /\ email = [local |-> LongName(1), domain |-> "example.com"]
    /\ depth = 1
    /\ stream_pc = "init" /\ events = <<>> /\ finding_count = 0
    /\ pc = "init" /\ phase = "none" /\ yielded = {} /\ results = <<>>
    /\ root_id = 0 /\ findings = <<>> /\ usernames = {} /\ bios = <<>>
    /\ locations = <<>> /\ found_accounts = <<>> /\ found_urls = <<>>
    /\ audit_log = {} /\ mi = 0 /\ usernames_to_check = <<>> /\ ui = 0
    /\ si = 0 /\ urls_to_check = <<>> /\ wi = 0 /\ hi = 0 /\ exc = {}
    /\ invoked = <<>> /\ hop1_usernames = {} /\ raised = {}
    /\ deadline_fired = FALSE /\ probe_overdue = FALSE


-----------------------------------------------------------------------------
(* event_stream (scan.py:57-120)                                            *)

\* An event_stream that goes to the scan without the start event.
SendStartMissing ==
    /\ stream_pc = "init"
    /\ stream_pc' = "iterating"
    /\ UNCHANGED << units, inputs, events, finding_count, pc, phase, yielded, results,
                    root_id, aggregate, loops, exc, history, clocks >>

\* scan.py:67-73: the start event
SendStart ==
    /\ stream_pc = "init"
    /\ events' = Append(events, [type |-> "start", depth |-> depth])
    /\ stream_pc' = "iterating"
    /\ UNCHANGED << units, inputs, finding_count, pc, phase, yielded, results, root_id,
                    aggregate, loops, exc, history, clocks >>

\* scan.py:86-92
Progress(count) ==
    LET expected == IF depth = 1 THEN 10 ELSE IF depth = 2 THEN 25 ELSE 40
    IN  Min(95, (count * 100) \div expected)

\* scan.py:76-102: the loop body, for the finding run() has yielded
Consume ==
    /\ stream_pc = "iterating"
    /\ yielded # {}
    /\ \E f \in yielded :
         /\ finding_count' = finding_count + 1
         /\ events' = events \o
              << [type |-> "finding", finding |-> f],
                 [type |-> "progress", progress |-> Progress(finding_count + 1),
                  finding_count |-> finding_count + 1] >>
    /\ yielded' = {}
    /\ UNCHANGED << units, inputs, stream_pc, pc, phase, results, root_id, aggregate,
                    loops, exc, history, clocks >>

\* orchestrator.py:403-424
GetResults ==
    [findings |-> findings,
     audit_log |-> audit_log,
     total_nodes |-> Len(findings),
     stats |-> [usernames_discovered |-> Cardinality(usernames),
                urls_found |-> Len(found_urls)]]

\* scan.py:104-109: run() is exhausted
StreamComplete ==
    /\ stream_pc = "iterating"
    /\ pc = "returned"
    /\ events' = Append(events, [type |-> "complete", results |-> GetResults])
    /\ stream_pc' = "closed"
    /\ UNCHANGED << units, inputs, finding_count, pc, phase, yielded, results, root_id,
                    aggregate, loops, exc, history, clocks >>

\* scan.py:111-120: an exception left run()
StreamError ==
    /\ stream_pc = "iterating"
    /\ pc = "raised"
    /\ \E e \in exc :
         events' = Append(events,
             [type |-> "error",
              error |-> IF e = "TimeoutError" THEN "Scan timeout" ELSE "Scan error"])
    /\ stream_pc' = "closed"
    /\ UNCHANGED << units, inputs, finding_count, pc, phase, yielded, results, root_id,
                    aggregate, loops, exc, history, clocks >>

-----------------------------------------------------------------------------
(* ScanOrchestrator.run (orchestrator.py:178-401)                           *)

Running == stream_pc = "iterating" /\ yielded = {}

\* orchestrator.py:197-233: reset, build the root, append it, yield it
RunBegin ==
    /\ Running
    /\ pc = "init"
    /\ LET root == RootFinding(1, email)
       IN  /\ root_id' = root.id
           /\ findings' = << root >>
           /\ yielded' = { root }
    /\ usernames' = {}
    /\ bios' = <<>>
    /\ locations' = <<>>
    /\ found_accounts' = <<>>
    /\ found_urls' = <<>>
    /\ audit_log' = {"INFO"}
    /\ pc' = "root"
    /\ UNCHANGED << units, inputs, stream, phase, results, loops, exc, history, clocks >>

\* orchestrator.py:234-246: resumed after the root; the email's local part
AfterRoot ==
    /\ Running
    /\ pc = "root"
    /\ usernames' = IF email.local.len >= 3 THEN usernames \cup {email.local}
                    ELSE usernames
    /\ pc' = "hop1"
    /\ phase' = "call"
    /\ mi' = 1
    /\ UNCHANGED << units, inputs, stream, yielded, results, root_id, findings, bios,
                    locations, found_accounts, found_urls, audit_log,
                    usernames_to_check, ui, si, urls_to_check, wi, hi, exc,
                    history, clocks >>

\* A loop that yields the results from the last to the first.
YieldLastFinding ==
    /\ Running
    /\ phase = "deliver"
    /\ results # <<>>
    /\ yielded' = { results[Len(results)] }
    /\ results' = SubSeq(results, 1, Len(results) - 1)
    /\ UNCHANGED << units, inputs, stream, pc, phase, root_id, aggregate, loops, exc,
                    history, clocks >>

\* orchestrator.py:269-270 (and 291-292, 300-301, ...): for finding in results: yield finding
YieldFinding ==
    /\ Running
    /\ phase = "deliver"
    /\ results # <<>>
    /\ yielded' = { Head(results) }
    /\ results' = Tail(results)
    /\ UNCHANGED << units, inputs, stream, pc, phase, root_id, aggregate, loops, exc,
                    history, clocks >>

\* A loop that goes on to the next probe only once the scan has a finding
\* besides the root.
DeliveredAfterFinding ==
    Running /\ phase = "deliver" /\ results = <<>> /\ Len(findings) > 1

\* A loop that goes on to the next probe with results still to yield.
DeliveredEarly == Running /\ phase = "deliver"

Delivered == Running /\ phase = "deliver" /\ results = <<>>

\* orchestrator.py:265-268
Hop1Call ==
    /\ Running
    /\ pc = "hop1"
    /\ phase = "call"
    /\ RunModule(hop1_modules[mi], EmailSeed, 1)
    /\ UNCHANGED << units, inputs, stream, yielded, root_id, loops, hop1_usernames, clocks >>

\* orchestrator.py:271 and the end of the for loop
Hop1Advance ==
    /\ Delivered
    /\ pc = "hop1"
    /\ IF mi < Len(hop1_modules)
       THEN /\ mi' = mi + 1
            /\ phase' = "call"
            /\ pc' = pc
       ELSE /\ mi' = 0
            /\ phase' = "none"
            /\ pc' = "hop2_gate"
    /\ UNCHANGED << units, inputs, stream, yielded, results, root_id, aggregate,
                    usernames_to_check, ui, si, urls_to_check, wi, hi, exc,
                    history, clocks >>

\* orchestrator.py:274
Hop2Entered(d, names) == d >= 2 /\ names # {}

\* list(self.usernames) without the slice.
UsernamesToCheckUncapped(names, seed) == SetToList(names, seed)

\* orchestrator.py:280
UsernamesToCheck(names, seed) == Take(SetToList(names, seed), HOP2_USERNAME_CAP)

\* orchestrator.py:274-282
Hop2Gate ==
    /\ Running
    /\ pc = "hop2_gate"
    /\ hop1_usernames' = usernames
    /\ IF Hop2Entered(depth, usernames)
       THEN /\ \E seed \in HashSeeds :
                   usernames_to_check' = UsernamesToCheck(usernames, seed)
            /\ ui' = 1
            /\ si' = 1
            /\ pc' = "hop2"
            /\ phase' = "call"
       ELSE /\ pc' = "hop3_gate"
            /\ UNCHANGED << usernames_to_check, ui, si, phase >>
    /\ UNCHANGED << units, inputs, stream, yielded, results, root_id, aggregate, mi,
                    urls_to_check, wi, hi, exc, invoked, raised, clocks >>

\* orchestrator.py:286-319: one of the six calls made for usernames_to_check[ui]
Hop2Call ==
    /\ Running
    /\ pc = "hop2"
    /\ phase = "call"
    /\ RunModule(hop2_steps[si].module,
                 UsernameSeed(usernames_to_check[ui], hop2_steps[si].platform), 2)
    /\ UNCHANGED << units, inputs, stream, yielded, root_id, loops, hop1_usernames, clocks >>

\* The address a GitHub profile may display: the scanned one or another.
ProfileEmails == { email, [local |-> LongName(9), domain |-> "example.org"] }

\* orchestrator.py:295-299 with github.py:306-321: the GitHubLookup call for
\* usernames_to_check[ui] finds a profile that displays an address, and
\* yields the finding of it.
GitHubLookupPublicEmail ==
    /\ Running
    /\ pc = "hop2"
    /\ phase = "call"
    /\ hop2_steps[si].module = "GitHubLookup"
    /\ Len(findings) - 1 < MaxFindings
    /\ \E address \in ProfileEmails :
         LET f == PublicEmailFinding(Len(findings) + 1, root_id, address,
                                     Url(Cardinality(SeqToSet(found_urls)) + 1))
             agg == CollectMetadata([Aggregate EXCEPT !.findings = Append(@, f)], f)
         IN  /\ findings' = agg.findings
             /\ usernames' = agg.usernames
             /\ bios' = agg.bios
             /\ locations' = agg.locations
             /\ found_accounts' = agg.found_accounts
             /\ found_urls' = agg.found_urls
             /\ results' = << f >>
    /\ invoked' = Append(invoked,
          [module |-> "GitHubLookup",
           seed |-> UsernameSeed(usernames_to_check[ui], {}), hop |-> 2])
    /\ audit_log' = audit_log \cup LogLevels(<< "E" >>, "end")
    /\ phase' = "deliver"
    /\ UNCHANGED << units, inputs, stream, yielded, root_id, loops, hop1_usernames,
                    raised, pc, exc, clocks >>

\* orchestrator.py:293, 302, 311, 322 and the ends of the two loops
Hop2Advance ==
    /\ Delivered
    /\ pc = "hop2"
    /\ IF si < Len(hop2_steps)
       THEN /\ si' = si + 1
            /\ phase' = "call"
            /\ UNCHANGED << ui, pc >>
       ELSE IF ui < Len(usernames_to_check)
       THEN /\ ui' = ui + 1
            /\ si' = 1
            /\ phase' = "call"
            /\ pc' = pc
       ELSE /\ ui' = 0
            /\ si' = 0
            /\ phase' = "none"
            /\ pc' = "wayback_gate"
    /\ UNCHANGED << units, inputs, stream, yielded, results, root_id, aggregate, mi,
                    usernames_to_check, urls_to_check, wi, hi, exc, history, clocks >>

\* orchestrator.py:330
UrlsToCheck(urls, seed) == Take(SetToList(SeqToSet(urls), seed), WAYBACK_URL_CAP)

\* orchestrator.py:325-330
WaybackGate ==
    /\ Running
    /\ pc = "wayback_gate"
    /\ IF found_urls # <<>>
       THEN /\ \E seed \in HashSeeds :
                   urls_to_check' = UrlsToCheck(found_urls, seed)
            /\ wi' = 1
            /\ pc' = "wayback"
            /\ phase' = "call"
       ELSE /\ pc' = "hop3_gate"
            /\ UNCHANGED << urls_to_check, wi, phase >>
    /\ UNCHANGED << units, inputs, stream, yielded, results, root_id, aggregate, mi,
                    usernames_to_check, ui, si, hi, exc, history, clocks >>

\* orchestrator.py:331-333
WaybackCall ==
    /\ Running
    /\ pc = "wayback"
    /\ phase = "call"
    /\ RunModule("WaybackLookup", UrlSeed(urls_to_check[wi]), 2)
    /\ UNCHANGED << units, inputs, stream, yielded, root_id, loops, hop1_usernames, clocks >>

\* orchestrator.py:336 and the end of the for loop
WaybackAdvance ==
    /\ Delivered
    /\ pc = "wayback"
    /\ IF wi < Len(urls_to_check)
       THEN /\ wi' = wi + 1
            /\ phase' = "call"
            /\ pc' = pc
       ELSE /\ wi' = 0
            /\ phase' = "none"
            /\ pc' = "hop3_gate"
    /\ UNCHANGED << units, inputs, stream, yielded, results, root_id, aggregate, mi,
                    usernames_to_check, ui, si, urls_to_check, hi, exc, history, clocks >>

\* orchestrator.py:339
Hop3Entered(d) == d >= 3

\* orchestrator.py:339-343
Hop3Gate ==
    /\ Running
    /\ pc = "hop3_gate"
    /\ IF Hop3Entered(depth)
       THEN /\ pc' = "hop3"
            /\ hi' = 1
            /\ phase' = "call"
       ELSE /\ pc' = "completion"
            /\ UNCHANGED << hi, phase >>
    /\ UNCHANGED << units, inputs, stream, yielded, results, root_id, aggregate, mi,
                    usernames_to_check, ui, si, urls_to_check, wi, exc, history, clocks >>

\* orchestrator.py:345 (always), 355 (if self.locations), 366 (if self.usernames or self.bios)
Hop3Runs(h) ==
    \/ h = 1
    \/ h = 2 /\ locations # <<>>
    \/ h = 3 /\ (usernames # {} \/ bios # <<>>)

Hop3Next ==
    IF hi < Len(hop3_modules)
    THEN /\ hi' = hi + 1
         /\ phase' = "call"
         /\ pc' = pc
    ELSE /\ hi' = 0
         /\ phase' = "none"
         /\ pc' = "completion"

\* orchestrator.py:347-350, 357-361, 368-376
Hop3Call ==
    /\ Running
    /\ pc = "hop3"
    /\ phase = "call"
    /\ Hop3Runs(hi)
    /\ RunModule(hop3_modules[hi], IF hi = 1 THEN EmailSeed ELSE JsonSeed, 3)
    /\ UNCHANGED << units, inputs, stream, yielded, root_id, loops, hop1_usernames, clocks >>

\* orchestrator.py:355, 366: the block's condition is false
Hop3Skip ==
    /\ Running
    /\ pc = "hop3"
    /\ phase = "call"
    /\ ~ Hop3Runs(hi)
    /\ Hop3Next
    /\ UNCHANGED << units, inputs, stream, yielded, results, root_id, aggregate, mi,
                    usernames_to_check, ui, si, urls_to_check, wi, exc, history, clocks >>

\* orchestrator.py:351-352, 362-363, 377-378 are over: on to the next block
Hop3Advance ==
    /\ Delivered
    /\ pc = "hop3"
    /\ Hop3Next
    /\ UNCHANGED << units, inputs, stream, yielded, results, root_id, aggregate, mi,
                    usernames_to_check, ui, si, urls_to_check, wi, exc, history, clocks >>

\* orchestrator.py:380-401: the closing log lines; the generator returns
Completion ==
    /\ Running
    /\ pc = "completion"
    /\ pc' = "returned"
    /\ UNCHANGED << units, inputs, stream, phase, yielded, results, root_id, aggregate,
                    loops, exc, history, clocks >>

-----------------------------------------------------------------------------
(* The environment *)

\* The awaited probe (orchestrator.py:117) is still not over when the
\* per-probe deadline has passed.  Nothing in _run_module watches it.
ProbeDeadlinePasses ==
    /\ phase = "awaiting"
    /\ ~ probe_overdue
    /\ probe_overdue' = TRUE
    /\ UNCHANGED << units, inputs, stream, pc, phase, yielded, results, root_id,
                    aggregate, loops, exc, history, deadline_fired >>

\* SCAN_TIMEOUT_SECONDS (config.py:32) have passed since start_time
\* (orchestrator.py:200) while the scan is under way.
DeadlineFires ==
    /\ stream_pc = "iterating"
    /\ pc \notin {"init", "returned", "raised"}
    /\ ~ deadline_fired
    /\ deadline_fired' = TRUE
    /\ UNCHANGED << units, inputs, stream, pc, phase, yielded, results, root_id,
                    aggregate, loops, exc, history, probe_overdue >>

\* The log sink fails: _log prints every entry (orchestrator.py:90), and the
\* log call that opens _run_module (orchestrator.py:114) is outside its try.
\* The OSError (TimeoutError is one) leaves run().
LogSinkFails ==
    /\ Running
    /\ phase = "call"
    /\ \E e \in {"OSError", "TimeoutError"} : exc' = {e}
    /\ pc' = "raised"
    /\ phase' = "none"
    /\ UNCHANGED << units, inputs, stream, yielded, results, root_id, aggregate, loops,
                    history, clocks >>

-----------------------------------------------------------------------------
(* Specifications *)

OrchestratorStep ==
    \/ RunBegin
    \/ AfterRoot
    \/ YieldFinding
    \/ Hop1Call
    \/ Hop1Advance
    \/ Hop2Gate
    \/ Hop2Call
    \/ Hop2Advance
    \/ WaybackGate
    \/ WaybackCall
    \/ WaybackAdvance
    \/ Hop3Gate
    \/ Hop3Call
    \/ Hop3Skip
    \/ Hop3Advance
    \/ Completion

StreamStep ==
    \/ SendStart
    \/ Consume
    \/ StreamComplete

Next ==
    \/ OrchestratorStep
    \/ StreamStep
    \/ ProbeDeadlinePasses

\* A scan whose log sink works, without the scan-wide clock.
Spec == Init /\ [][Next]_vars

\* The event loop keeps running the scan's coroutine and the client keeps
\* reading the stream.
FairSpec == Spec /\ WF_vars(OrchestratorStep) /\ WF_vars(StreamStep)

NextFail ==
    \/ Next
    \/ LogSinkFails
    \/ StreamError

\* The same scan with a log sink that may fail.
SpecFail == Init /\ [][NextFail]_vars

NextMask ==
    \/ Next
    \/ GitHubLookupPublicEmail

\* The same scan with GitHub profiles that display an email address.
SpecMask == Init /\ [][NextMask]_vars

\* calculate_risk_score is called on a list of findings.
RiskInit ==
    /\ ScanIdle
    /\ risk_findings \in RiskInputs
    /\ risk = <<>>
    /\ risk_before = <<>>
    /\ replay = <<>>
    /\ emitted = {}
    /\ GatewayStarted
    /\ NamesIdle
    /\ InferenceIdle

Score ==
    /\ risk = <<>>
    /\ risk' = calculate_risk_score(risk_findings)
    /\ UNCHANGED << scan_state, risk_findings, risk_before, replay, emitted, gateway,
                    spellings, inference >>

\* calculate_risk_score is called again, on the list with one more finding.
ScoreAppended ==
    /\ risk # <<>>
    /\ risk_before = <<>>
    /\ \E f \in RiskSamples :
          /\ risk_findings' = Append(risk_findings, f)
          /\ risk' = calculate_risk_score(Append(risk_findings, f))
    /\ risk_before' = risk
    /\ UNCHANGED << scan_state, replay, emitted, gateway, spellings, inference >>

NextRisk ==
    \/ Score
    \/ ScoreAppended

SpecRisk == RiskInit /\ [][NextRisk]_vars

-----------------------------------------------------------------------------
(* ScanOrchestrator.run as a function of the depth, for probes whose answers *)
(* are fixed: hop 1 reports `discovered` usernames, the expansion of a       *)
(* username reports its account, hop 3 reports the broker summary            *)

\* What a finding is identified by: (source, title, data.username).
Identity(source, title, name) == [source |-> source, title |-> title, username |-> name]

\* orchestrator.py:218-271
Hop1Names(address, discovered) ==
    (IF address.local.len >= 3 THEN {address.local} ELSE {})
    \cup { LongName(k + 1) : k \in 1..discovered }

Hop1Emitted(address, discovered) ==
    { Identity("User Input", MaskEmail(EmailText(address)), {}) }
    \cup { Identity("Email Analysis", << "Username: " >> \o Chars(LongName(k + 1)),
                    {LongName(k + 1)}) : k \in 1..discovered }

\* orchestrator.py:274-322
Hop2Emitted(d, names, salt) ==
    IF Hop2Entered(d, names)
    THEN { Identity("UsernameChecker", << "Account: " >> \o Chars(u), {u}) :
             u \in SeqToSet(UsernamesToCheck(names, salt)) }
    ELSE {}

\* orchestrator.py:339-352
Hop3Emitted(d) ==
    IF Hop3Entered(d)
    THEN { Identity("Data Broker Check", << "Data brokers" >>, {}) }
    ELSE {}

EmittedAt(d, address, discovered, salt) ==
    Hop1Emitted(address, discovered)
    \cup Hop2Emitted(d, Hop1Names(address, discovered), salt)
    \cup Hop3Emitted(d)

DepthInit ==
    /\ ScanIdle
    /\ risk_findings = <<>>
    /\ risk = <<>>
    /\ risk_before = <<>>
    /\ replay \in [email : Emails, discovered : 0..MaxFindings,
                    salt : [Depths -> HashSeeds]]
    /\ emitted = {}
    /\ GatewayStarted
    /\ NamesIdle
    /\ InferenceIdle

\* One more scan of the address, at a depth not scanned so far.
ScanAtDepth ==
    /\ \E d \in Depths \ { e.depth : e \in emitted } :
         emitted' = emitted \cup
            { [depth |-> d,
               findings |-> EmittedAt(d, replay.email, replay.discovered,
                                      replay.salt[d])] }
    /\ UNCHANGED << scan_state, risk_findings, risk, risk_before, replay, gateway,
                    spellings, inference >>

NextDepth ==
    \/ ScanAtDepth

SpecDepth == DepthInit /\ [][NextDepth]_vars

-----------------------------------------------------------------------------
(* The verification and scan routes (routes/verify.py, routes/scan.py) with *)
(* their stores (security/verification.py, security/rate_limit.py).  One    *)
(* client address makes all the requests.                                   *)

\* The code create() draws (verification.py:46), and the codes a request may
\* carry: the drawn one and a wrong one.
Drawn == {1}
Codes == Drawn \cup {2}

\* The steps by which time passes between requests.
Jumps == {TOKEN_EXPIRY_SECONDS, RATE_LIMIT_SCAN_COOLDOWN_HOURS * 3600}

\* is_allowed admitting while the window holds max_requests timestamps
is_allowed_one_more(entry, t, max_requests, window_seconds, apply_lockout, lockout_seconds) ==
    LET window_start == t - window_seconds
        timestamps == SelectSeq(entry.timestamps, LAMBDA x : x > window_start)
    IN  IF Len(timestamps) <= max_requests
        THEN [allowed |-> TRUE,
              entry |-> [timestamps |-> Append(timestamps, t), lockout_until |-> {}],
              retry_after |-> {}]
        ELSE [allowed |-> FALSE,
              entry |-> [timestamps |-> timestamps, lockout_until |-> {}],
              retry_after |-> {window_seconds}]

\* is_allowed starting the lockout anew with each request it denies
is_allowed_extending(entry, t, max_requests, window_seconds, apply_lockout, lockout_seconds) ==
    IF \E l \in entry.lockout_until : l > t
    THEN [allowed |-> FALSE,
          entry |-> [entry EXCEPT !.lockout_until = {t + lockout_seconds}],
          retry_after |-> {lockout_seconds}]
    ELSE LET window_start == t - window_seconds
             timestamps == SelectSeq(entry.timestamps, LAMBDA x : x > window_start)
         IN  IF Len(timestamps) < max_requests
             THEN [allowed |-> TRUE,
                   entry |-> [timestamps |-> Append(timestamps, t), lockout_until |-> {}],
                   retry_after |-> {}]
             ELSE IF apply_lockout
             THEN [allowed |-> FALSE,
                   entry |-> [timestamps |-> timestamps,
                              lockout_until |-> {t + lockout_seconds}],
                   retry_after |-> {lockout_seconds}]
             ELSE LET oldest == CHOOSE x \in SeqToSet(timestamps) :
                                    \A y \in SeqToSet(timestamps) : x <= y
                  IN  [allowed |-> FALSE,
                       entry |-> [timestamps |-> timestamps, lockout_until |-> {}],
                       retry_after |-> {((oldest + window_seconds) - t) + 1}]

\* rate_limit.py:36-77, on the entry of the key.  retry_after is {} for None.
is_allowed(entry, t, max_requests, window_seconds, apply_lockout, lockout_seconds) ==
    IF \E l \in entry.lockout_until : l > t
    THEN [allowed |-> FALSE, entry |-> entry,
          retry_after |-> { l - t : l \in entry.lockout_until }]
    ELSE LET window_start == t - window_seconds
             timestamps == SelectSeq(entry.timestamps, LAMBDA x : x > window_start)
         IN  IF Len(timestamps) < max_requests
             THEN [allowed |-> TRUE,
                   entry |-> [timestamps |-> Append(timestamps, t), lockout_until |-> {}],
                   retry_after |-> {}]
             ELSE IF apply_lockout
             THEN [allowed |-> FALSE,
                   entry |-> [timestamps |-> timestamps,
                              lockout_until |-> {t + lockout_seconds}],
                   retry_after |-> {lockout_seconds}]
             ELSE LET oldest == CHOOSE x \in SeqToSet(timestamps) :
                                    \A y \in SeqToSet(timestamps) : x <= y
                  IN  [allowed |-> FALSE,
                       entry |-> [timestamps |-> timestamps, lockout_until |-> {}],
                       retry_after |-> {((oldest + window_seconds) - t) + 1}]

\* verification.py:32-40
VerificationCleanup(store, t) ==
    [e \in DOMAIN store |-> { r \in store[e] : ~ (r.expires_at < t \/ r.used) }]

\* verification.py:59-62: the locked block of create.  The salted hash of
\* the code stands for the code.
create_locked(store, e, code, t) ==
    [store EXCEPT
        ![e] = { [code_hash |-> code,
                  expires_at |-> t + VERIFICATION_CODE_EXPIRY_SECONDS,
                  attempts |-> 0, used |-> FALSE] }]

\* verification.py:42-64, with nothing between _cleanup and the locked block
create(store, e, code, t) ==
    create_locked(VerificationCleanup(store, t), e, code, t)

\* the locked block of verify leaving a matched record unused
verify_locked_reusable(store, e, code, t) ==
    IF store[e] = {}
    THEN [success |-> FALSE, error |-> "No verification pending", store |-> store]
    ELSE LET record == CHOOSE r \in store[e] : TRUE
             counted == [record EXCEPT !.attempts = @ + 1]
         IN  IF record.used
             THEN [success |-> FALSE, error |-> "Code already used", store |-> store]
             ELSE IF record.expires_at < t
             THEN [success |-> FALSE, error |-> "Code expired",
                   store |-> [store EXCEPT ![e] = {}]]
             ELSE IF record.attempts >= VERIFICATION_MAX_ATTEMPTS
             THEN [success |-> FALSE, error |-> "Too many attempts",
                   store |-> [store EXCEPT ![e] = {}]]
             ELSE IF code # record.code_hash
             THEN [success |-> FALSE, error |-> "Invalid code",
                   store |-> [store EXCEPT ![e] = {counted}]]
             ELSE [success |-> TRUE, error |-> "",
                   store |-> [store EXCEPT ![e] = {counted}]]

\* the locked block of verify refusing only past the maximum of attempts
verify_locked_one_more(store, e, code, t) ==
    IF store[e] = {}
    THEN [success |-> FALSE, error |-> "No verification pending", store |-> store]
    ELSE LET record == CHOOSE r \in store[e] : TRUE
             counted == [record EXCEPT !.attempts = @ + 1]
         IN  IF record.used
             THEN [success |-> FALSE, error |-> "Code already used", store |-> store]
             ELSE IF record.expires_at < t
             THEN [success |-> FALSE, error |-> "Code expired",
                   store |-> [store EXCEPT ![e] = {}]]
             ELSE IF record.attempts > VERIFICATION_MAX_ATTEMPTS
             THEN [success |-> FALSE, error |-> "Too many attempts",
                   store |-> [store EXCEPT ![e] = {}]]
             ELSE IF code # record.code_hash
             THEN [success |-> FALSE, error |-> "Invalid code",
                   store |-> [store EXCEPT ![e] = {counted}]]
             ELSE [success |-> TRUE, error |-> "",
                   store |-> [store EXCEPT ![e] = {[counted EXCEPT !.used = TRUE]}]]

\* verification.py:72-97: the locked block of verify
verify_locked(store, e, code, t) ==
    IF store[e] = {}
    THEN [success |-> FALSE, error |-> "No verification pending", store |-> store]
    ELSE LET record == CHOOSE r \in store[e] : TRUE
             counted == [record EXCEPT !.attempts = @ + 1]
         IN  IF record.used
             THEN [success |-> FALSE, error |-> "Code already used", store |-> store]
             ELSE IF record.expires_at < t
             THEN [success |-> FALSE, error |-> "Code expired",
                   store |-> [store EXCEPT ![e] = {}]]
             ELSE IF record.attempts >= VERIFICATION_MAX_ATTEMPTS
             THEN [success |-> FALSE, error |-> "Too many attempts",
                   store |-> [store EXCEPT ![e] = {}]]
             ELSE IF code # record.code_hash
             THEN [success |-> FALSE, error |-> "Invalid code",
                   store |-> [store EXCEPT ![e] = {counted}]]
             ELSE [success |-> TRUE, error |-> "",
                   store |-> [store EXCEPT ![e] = {[counted EXCEPT !.used = TRUE]}]]

\* verification.py:66-97, with nothing between _cleanup and the locked block
verify(store, e, code, t) ==
    verify_locked(VerificationCleanup(store, t), e, code, t)

\* validate_scan_token without the del of an accepted token
validate_scan_token_kept(tokens, token, t) ==
    IF ~ \E entry \in tokens : entry.token = token
    THEN [valid |-> FALSE, result |-> {"Invalid token"}, tokens |-> tokens]
    ELSE LET entry == CHOOSE x \in tokens : x.token = token
         IN  IF t > entry.expiry
             THEN [valid |-> FALSE, result |-> {"Token expired"}, tokens |-> tokens \ {entry}]
             ELSE [valid |-> TRUE, result |-> {entry.email}, tokens |-> tokens]

\* verify.py:96-107, on _scan_tokens
validate_scan_token(tokens, token, t) ==
    IF ~ \E entry \in tokens : entry.token = token
    THEN [valid |-> FALSE, result |-> {"Invalid token"}, tokens |-> tokens]
    ELSE LET entry == CHOOSE x \in tokens : x.token = token
         IN  IF t > entry.expiry
             THEN [valid |-> FALSE, result |-> {"Token expired"}, tokens |-> tokens \ {entry}]
             ELSE [valid |-> TRUE, result |-> {entry.email}, tokens |-> tokens \ {entry}]

\* verify.py:33-56: POST /verify/send
SendCode(e) ==
    /\ requests < MaxRequests
    /\ requests' = requests + 1
    /\ LET limit == is_allowed(request_limiter, now, RATE_LIMIT_VERIFY_PER_HOUR,
                               3600, FALSE, 900)
       IN  /\ request_limiter' = limit.entry
           /\ IF ~ limit.allowed
              THEN /\ response' = [route |-> "send", status |-> 429]
                   /\ UNCHANGED verification_store
              ELSE \E code \in Drawn, sent \in BOOLEAN :
                   /\ verification_store' = create(verification_store, e, code, now)
                   /\ response' = [route |-> "send",
                                   status |-> IF sent THEN 200 ELSE 500]
    /\ UNCHANGED << scan_state, functions, attempt, now, attempt_limiter, scan_limiter,
                    scan_tokens, issued, accepted, admitted, jumps, threads >>

\* verify.py:59-93: the handler of POST /verify/confirm
confirm_code(e, code) ==
    /\ LET limit == is_allowed(attempt_limiter[e], now, VERIFICATION_MAX_ATTEMPTS,
                               VERIFICATION_CODE_EXPIRY_SECONDS, TRUE,
                               VERIFICATION_LOCKOUT_SECONDS)
           checked == verify(verification_store, e, code, now)
           token == Cardinality(issued) + 1
       IN  IF ~ limit.allowed
           THEN /\ attempt_limiter' = [attempt_limiter EXCEPT ![e] = limit.entry]
                /\ response' = [route |-> "confirm", status |-> 429]
                /\ UNCHANGED << verification_store, scan_tokens, issued >>
           ELSE IF ~ checked.success
           THEN /\ attempt_limiter' = [attempt_limiter EXCEPT ![e] = limit.entry]
                /\ verification_store' = checked.store
                /\ response' = [route |-> "confirm", status |-> 400]
                /\ UNCHANGED << scan_tokens, issued >>
           ELSE /\ verification_store' = checked.store
                /\ scan_tokens' =
                     { x \in scan_tokens \cup
                               { [token |-> token, email |-> e,
                                  expiry |-> now + TOKEN_EXPIRY_SECONDS] } :
                         ~ (x.expiry < now) }
                /\ attempt_limiter' = [attempt_limiter EXCEPT ![e] = NewEntry]
                /\ issued' = issued \cup { [token |-> token, email |-> e, at |-> now] }
                /\ response' = [route |-> "confirm", status |-> 200]
    /\ UNCHANGED << scan_state, functions, now, request_limiter, scan_limiter,
                    accepted, admitted, jumps, threads >>

\* POST /verify/confirm
ConfirmCode(e, code) ==
    /\ requests < MaxRequests
    /\ requests' = requests + 1
    /\ confirm_code(e, code)
    /\ UNCHANGED attempt

\* GET /scan giving the token back to a request it answers with 429
ScanKeepingRefused(token) ==
    /\ requests < MaxRequests
    /\ requests' = requests + 1
    /\ LET checked == validate_scan_token(scan_tokens, token, now)
       IN  /\ scan_tokens' =
                IF checked.valid
                   /\ \E e \in checked.result :
                         ~ is_allowed(scan_limiter[e], now, 1,
                                      RATE_LIMIT_SCAN_COOLDOWN_HOURS * 3600,
                                      FALSE, 900).allowed
                THEN scan_tokens
                ELSE checked.tokens
           /\ IF ~ checked.valid
              THEN /\ response' = [route |-> "scan", status |-> 401]
                   /\ UNCHANGED << scan_limiter, accepted, admitted >>
              ELSE \E e \in checked.result :
                   LET limit == is_allowed(scan_limiter[e], now, 1,
                                           RATE_LIMIT_SCAN_COOLDOWN_HOURS * 3600,
                                           FALSE, 900)
                   IN  /\ accepted' = Append(accepted, [token |-> token, email |-> e, at |-> now])
                       /\ scan_limiter' = [scan_limiter EXCEPT ![e] = limit.entry]
                       /\ IF limit.allowed
                          THEN /\ admitted' = Append(admitted, [email |-> e, at |-> now])
                               /\ response' = [route |-> "scan", status |-> 200]
                          ELSE /\ response' = [route |-> "scan", status |-> 429]
                               /\ UNCHANGED admitted
    /\ UNCHANGED << scan_state, functions, attempt, now, verification_store, request_limiter,
                    attempt_limiter, issued, jumps, threads >>

\* scan.py:17-130: GET /scan, up to the start of the stream
Scan(token) ==
    /\ requests < MaxRequests
    /\ requests' = requests + 1
    /\ LET checked == validate_scan_token(scan_tokens, token, now)
       IN  /\ scan_tokens' = checked.tokens
           /\ IF ~ checked.valid
              THEN /\ response' = [route |-> "scan", status |-> 401]
                   /\ UNCHANGED << scan_limiter, accepted, admitted >>
              ELSE \E e \in checked.result :
                   LET limit == is_allowed(scan_limiter[e], now, 1,
                                           RATE_LIMIT_SCAN_COOLDOWN_HOURS * 3600,
                                           FALSE, 900)
                   IN  /\ accepted' = Append(accepted, [token |-> token, email |-> e, at |-> now])
                       /\ scan_limiter' = [scan_limiter EXCEPT ![e] = limit.entry]
                       /\ IF limit.allowed
                          THEN /\ admitted' = Append(admitted, [email |-> e, at |-> now])
                               /\ response' = [route |-> "scan", status |-> 200]
                          ELSE /\ response' = [route |-> "scan", status |-> 429]
                               /\ UNCHANGED admitted
    /\ UNCHANGED << scan_state, functions, attempt, now, verification_store, request_limiter,
                    attempt_limiter, issued, jumps, threads >>

\* Time passes.
Advance ==
    /\ jumps < MaxJumps
    /\ jumps' = jumps + 1
    /\ \E dt \in Jumps : now' = now + dt
    /\ UNCHANGED << scan_state, functions, attempt, verification_store, request_limiter,
                    attempt_limiter, scan_limiter, scan_tokens, response, issued,
                    accepted, admitted, requests, threads >>

GatewayInit ==
    /\ ScanIdle
    /\ risk_findings = <<>>
    /\ risk = <<>>
    /\ risk_before = <<>>
    /\ replay = <<>>
    /\ emitted = {}
    /\ GatewayStarted
    /\ NamesIdle
    /\ InferenceIdle

NextGateway ==
    \/ \E e \in Emails : SendCode(e)
    \/ \E e \in Emails, code \in Codes : ConfirmCode(e, code)
    \/ \E token \in 0..Cardinality(issued) : Scan(token)
    \/ Advance

SpecGateway == GatewayInit /\ [][NextGateway]_vars

-----------------------------------------------------------------------------
(* A client that keeps confirming: POST /verify/confirm beyond the maximum  *)
(* of attempts (routes/verify.py:59-72, security/rate_limit.py:36-77)       *)

\* POST /verify/confirm, each request noted with its address and its time
Attempt(e, code) ==
    /\ requests < MaxAttempts
    /\ requests' = requests + 1
    /\ confirm_code(e, code)
    /\ attempt' = [nr |-> requests + 1, email |-> {e}, at |-> now]

LockoutInit ==
    /\ ScanIdle
    /\ risk_findings = <<>>
    /\ risk = <<>>
    /\ risk_before = <<>>
    /\ replay = <<>>
    /\ emitted = {}
    /\ GatewayStarted
    /\ NamesIdle
    /\ InferenceIdle

NextLockout ==
    \/ \E e \in Emails : SendCode(e)
    \/ \E e \in Emails, code \in Codes : Attempt(e, code)
    \/ Advance

SpecLockout == LockoutInit /\ [][NextLockout]_vars

-----------------------------------------------------------------------------
(* VerificationStore (security/verification.py) called from two threads.   *)
(* A call runs _cleanup under the lock, reads the clock, and then runs its  *)
(* locked block; the other thread and the clock may move in between.        *)

\* The address whose code the threads create and verify.
Applicants == { [local |-> ShortName, domain |-> "example.com"] }

\* verification.py:44 and 68: create or verify is entered and runs _cleanup;
\* create draws its code (verification.py:46)
BeginCreate(c, e) ==
    /\ calls[c].pc = "idle"
    /\ requests < MaxCalls
    /\ requests' = requests + 1
    /\ verification_store' = VerificationCleanup(verification_store, now)
    /\ \E code \in Drawn :
          calls' = [calls EXCEPT ![c] = [pc |-> "cleaned", op |-> "create",
                                         email |-> e, code |-> code, t |-> 0]]
    /\ UNCHANGED << scan_state, functions, attempt, now, request_limiter, attempt_limiter,
                    scan_limiter, scan_tokens, response, issued, accepted,
                    admitted, jumps, verdicts, serial >>

BeginVerify(c, e, code) ==
    /\ calls[c].pc = "idle"
    /\ requests < MaxCalls
    /\ requests' = requests + 1
    /\ verification_store' = VerificationCleanup(verification_store, now)
    /\ calls' = [calls EXCEPT ![c] = [pc |-> "cleaned", op |-> "verify",
                                       email |-> e, code |-> code, t |-> 0]]
    /\ UNCHANGED << scan_state, functions, attempt, now, request_limiter, attempt_limiter,
                    scan_limiter, scan_tokens, response, issued, accepted,
                    admitted, jumps, verdicts, serial >>

\* verification.py:50 and 70: now = time.time()
ReadTime(c) ==
    /\ calls[c].pc = "cleaned"
    /\ calls' = [calls EXCEPT ![c].pc = "timed", ![c].t = now]
    /\ UNCHANGED << scan_state, functions, attempt, now, verification_store,
                    request_limiter, attempt_limiter, scan_limiter, scan_tokens,
                    response, issued, accepted, admitted, requests, jumps,
                    verdicts, serial >>

\* verification.py:59-64: the locked block of create, and its return
EndCreate(c) ==
    /\ calls[c].pc = "timed"
    /\ calls[c].op = "create"
    /\ verification_store' = create_locked(verification_store, calls[c].email,
                                           calls[c].code, calls[c].t)
    /\ serial' = [serial EXCEPT ![calls[c].email] = @ + 1]
    /\ calls' = [calls EXCEPT ![c] = NoCall]
    /\ UNCHANGED << scan_state, functions, attempt, now, request_limiter, attempt_limiter,
                    scan_limiter, scan_tokens, response, issued, accepted,
                    admitted, requests, jumps, verdicts >>

\* verification.py:72-97: the locked block of verify, and its return
EndVerify(c) ==
    /\ calls[c].pc = "timed"
    /\ calls[c].op = "verify"
    /\ LET e == calls[c].email
           result == verify_locked(verification_store, e, calls[c].code, calls[c].t)
           last == verdicts[e]
           same == last.nr > 0 /\ last.issue = serial[e]
           comparison == result.error \in {"", "Invalid code"}
       IN  /\ verification_store' = result.store
           /\ verdicts' =
                [verdicts EXCEPT ![e] =
                    [nr |-> last.nr + 1, issue |-> serial[e],
                     code |-> calls[c].code, at |-> calls[c].t,
                     found |-> verification_store[e],
                     success |-> result.success, error |-> result.error,
                     removed |-> result.store[e] = {},
                     compared |-> (IF same THEN last.compared ELSE 0)
                                    + (IF comparison THEN 1 ELSE 0),
                     successes |-> (IF same THEN last.successes ELSE 0)
                                     + (IF result.success THEN 1 ELSE 0)]]
    /\ calls' = [calls EXCEPT ![c] = NoCall]
    /\ UNCHANGED << scan_state, functions, attempt, now, request_limiter, attempt_limiter,
                    scan_limiter, scan_tokens, response, issued, accepted,
                    admitted, requests, jumps, serial >>

StoreInit ==
    /\ ScanIdle
    /\ risk_findings = <<>>
    /\ risk = <<>>
    /\ risk_before = <<>>
    /\ replay = <<>>
    /\ emitted = {}
    /\ GatewayStarted
    /\ NamesIdle
    /\ InferenceIdle

NextStore ==
    \/ \E c \in Callers, e \in Applicants : BeginCreate(c, e)
    \/ \E c \in Callers, e \in Applicants, code \in Codes : BeginVerify(c, e, code)
    \/ \E c \in Callers : ReadTime(c)
    \/ \E c \in Callers : EndCreate(c)
    \/ \E c \in Callers : EndVerify(c)
    \/ Advance

SpecStore == StoreInit /\ [][NextStore]_vars

-----------------------------------------------------------------------------
(* Usernames as the probes spell them, through _collect_metadata            *)
(* (orchestrator.py:135-170) into hop 2 (orchestrator.py:280-289)           *)

\* A username with its spelling: the name, and whether its first letter is a
\* capital (a GitHub login keeps the case its owner chose).
Spelt(name, capital) == [key |-> name.key, len |-> name.len, capital |-> capital]

UpperChar(c) ==
    CASE c = "a" -> "A" [] c = "u" -> "U" [] c = "s" -> "S" [] c = "f" -> "F"
      [] c = "c" -> "C" [] c = "b" -> "B"
      [] OTHER -> c

\* The str of a username.
Text(u) ==
    IF u.capital THEN << UpperChar(Chars(u)[1]) >> \o Tail(Chars(u)) ELSE Chars(u)

\* The logins the GitHub search may return for the address.
Logins == { Spelt(n, c) : n \in {ShortName, LongName(1), LongName(2)}, c \in BOOLEAN }

\* username_extractor.py:54-72: candidates of 3 to 30 characters of [a-z0-9_]
UsernameExtractorFinding(id, parent_id, name) ==
    [id |-> id, type |-> "username", parent_id |-> {parent_id},
     source |-> "Email Analysis", source_url |-> {},
     data |-> [NoData EXCEPT !.username = {Spelt(name, FALSE)}]]

\* github_email_search.py:111-131: username = the login as the API spells it
GitHubEmailSearchFinding(id, parent_id, login) ==
    [id |-> id, type |-> "username", parent_id |-> {parent_id},
     source |-> "GitHub Commit Search", source_url |-> {},
     data |-> [NoData EXCEPT !.username = {login}, !.platform = {"GitHub"}]]

\* username_checker.py:365-428: username = seed.strip(), reported as it is
\* for the GitHub account found (username_checker.py:26-49)
UsernameCheckerFinding(id, parent_id, seed) ==
    [id |-> id, type |-> "account", parent_id |-> {parent_id},
     source |-> "GitHub (API verified)", source_url |-> {},
     data |-> [NoData EXCEPT !.username = {seed}, !.platform = {"GitHub"}]]

\* The findings hop 1 may bring for an address: the extractor's candidates
\* for the local part and the logins of the GitHub search.
Hop1Reports(id, address) ==
    { UsernameExtractorFinding(id, 1, n) :
          n \in { m \in {address.local, LongName(2)} : m.len >= 3 } }
      \cup { GitHubEmailSearchFinding(id, 1, login) : login \in Logins }

EmptyAggregate ==
    [findings |-> <<>>, usernames |-> {}, bios |-> <<>>, locations |-> <<>>,
     found_accounts |-> <<>>, found_urls |-> <<>>]

NamesInit ==
    /\ ScanIdle
    /\ risk_findings = <<>>
    /\ risk = <<>>
    /\ risk_before = <<>>
    /\ replay = <<>>
    /\ emitted = {}
    /\ GatewayStarted
    /\ \E address \in Emails, n \in 0..MaxReported :
          /\ reported \in { fs \in [1..n -> UNION { Hop1Reports(k, address) : k \in 2..(n + 1) }] :
                              \A k \in 1..n : fs[k].id = k + 1 }
          /\ collector = [address |-> address, done |-> 0, prefix |-> FALSE,
                          agg |-> EmptyAggregate]
    /\ rechecked = <<>>
    /\ InferenceIdle

\* orchestrator.py:117-124 for the next finding of hop 1
CollectReported ==
    /\ collector.done < Len(reported)
    /\ LET f == reported[collector.done + 1]
       IN  collector' = [collector EXCEPT
                           !.done = @ + 1,
                           !.agg = CollectMetadata([@ EXCEPT !.findings = Append(@, f)], f)]
    /\ UNCHANGED << scan_state, risk_findings, risk, risk_before, replay, emitted,
                    gateway, inference,
                    reported, rechecked >>

\* orchestrator.py:236-240: the local part of the address, which the request
\* model has lower-cased (models/requests.py)
AddEmailPrefix ==
    /\ collector.done = Len(reported)
    /\ ~ collector.prefix
    /\ LET username_from_email == Spelt(collector.address.local, FALSE)
       IN  collector' = [collector EXCEPT
                           !.prefix = TRUE,
                           !.agg.usernames = IF username_from_email.len >= 3
                                             THEN @ \cup {username_from_email}
                                             ELSE @]
    /\ UNCHANGED << scan_state, risk_findings, risk, risk_before, replay, emitted,
                    gateway, inference,
                    reported, rechecked >>

\* orchestrator.py:280-289: UsernameChecker on one of the usernames (there
\* are at most HOP2_USERNAME_CAP of them), which finds the GitHub account
ExpandUsername(seed) ==
    /\ collector.prefix
    /\ Cardinality(collector.agg.usernames) <= HOP2_USERNAME_CAP
    /\ seed \in collector.agg.usernames
    /\ \A k \in DOMAIN rechecked : seed \notin rechecked[k].seed
    /\ LET f == UsernameCheckerFinding(Len(collector.agg.findings) + 2, 1, seed)
       IN  /\ rechecked' = Append(rechecked, [seed |-> {seed}, finding |-> f])
           /\ collector' = [collector EXCEPT
                               !.agg = CollectMetadata([@ EXCEPT !.findings = Append(@, f)], f)]
    /\ UNCHANGED << scan_state, risk_findings, risk, risk_before, replay, emitted,
                    gateway, inference,
                    reported >>

NextNames ==
    \/ CollectReported
    \/ AddEmailPrefix
    \/ \E seed \in Logins : ExpandUsername(seed)

SpecNames == NamesInit /\ [][NextNames]_vars

-----------------------------------------------------------------------------
(* LocationInference (modules/location_inference.py) on the locations that  *)
(* _collect_metadata gathers (orchestrator.py:149-156).  Confidences and    *)
(* scores are in thousandths, weights in hundredths.                        *)

\* str.strip
RECURSIVE StripText(_)
StripText(text) ==
    IF text = <<>> THEN text
    ELSE IF Head(text) = " " THEN StripText(Tail(text))
    ELSE IF text[Len(text)] = " " THEN StripText(SubSeq(text, 1, Len(text) - 1))
    ELSE text

\* str.endswith
EndsWith(text, suffix) ==
    /\ Len(suffix) <= Len(text)
    /\ SubSeq(text, Len(text) - Len(suffix) + 1, Len(text)) = suffix

\* str.replace: every occurrence, from the left
RECURSIVE ReplaceAll(_, _, _)
ReplaceAll(text, old, new) ==
    IF Len(text) < Len(old) THEN text
    ELSE IF SubSeq(text, 1, Len(old)) = old
    THEN new \o ReplaceAll(SubSeq(text, Len(old) + 1, Len(text)), old, new)
    ELSE << Head(text) >> \o ReplaceAll(Tail(text), old, new)

\* str.split(",")
RECURSIVE SplitComma(_)
SplitComma(text) ==
    IF "," \notin SeqToSet(text) THEN << text >>
    ELSE LET at == CHOOSE i \in 1..Len(text) :
                      text[i] = "," /\ \A j \in 1..(i - 1) : text[j] # ","
         IN  << SubSeq(text, 1, at - 1) >> \o SplitComma(SubSeq(text, at + 1, Len(text)))

\* str.title: a letter after a character that is no letter becomes a
\* capital, every other letter a small one.
TitleText(text) ==
    [k \in 1..Len(text) |->
        IF k = 1 \/ text[k - 1] \in {" ", ","}
        THEN UpperChar(LowerChar(text[k]))
        ELSE LowerChar(text[k])]

\* ', '.join(texts)
RECURSIVE JoinComma(_)
JoinComma(texts) ==
    IF texts = <<>> THEN <<>>
    ELSE IF Len(texts) = 1 THEN texts[1]
    ELSE texts[1] \o << ",", " " >> \o JoinComma(Tail(texts))

\* location_inference.py:20-30 and the default of line 73
SOURCE_WEIGHTS(source_type) ==
    CASE source_type = "github_profile" -> 90
      [] source_type = "twitter_profile" -> 85
      [] source_type = "linkedin_profile" -> 95
      [] source_type = "gravatar_profile" -> 70
      [] source_type = "subreddit_activity" -> 60
      [] source_type = "timezone_inference" -> 50
      [] source_type = "domain_registration" -> 40
      [] source_type = "commit_timezone" -> 55
      [] source_type = "ip_geolocation" -> 30
      [] OTHER -> 30

\* location_inference.py:37-45, in the order of the dict
Replacements ==
    << [abbr |-> << "s", "f" >>,
        full |-> << "s", "a", "n", " ", "f", "r", "a", "n", "c", "i", "s", "c", "o" >>],
       [abbr |-> << "n", "y", "c" >>,
        full |-> << "n", "e", "w", " ", "y", "o", "r", "k", " ", "c", "i", "t", "y" >>],
       [abbr |-> << "l", "a" >>,
        full |-> << "l", "o", "s", " ", "a", "n", "g", "e", "l", "e", "s" >>],
       [abbr |-> << "d", "c" >>,
        full |-> << "w", "a", "s", "h", "i", "n", "g", "t", "o", "n", " ", "d", "c" >>],
       [abbr |-> << "u", "k" >>,
        full |-> << "u", "n", "i", "t", "e", "d", " ", "k", "i", "n", "g", "d", "o", "m" >>],
       [abbr |-> << "u", "s", "a" >>,
        full |-> << "u", "n", "i", "t", "e", "d", " ", "s", "t", "a", "t", "e", "s" >>],
       [abbr |-> << "u", "s" >>,
        full |-> << "u", "n", "i", "t", "e", "d", " ", "s", "t", "a", "t", "e", "s" >>] >>

\* location_inference.py:47-49
RECURSIVE ApplyReplacements(_, _)
ApplyReplacements(location, k) ==
    IF k > Len(Replacements) THEN location
    ELSE LET abbr == Replacements[k].abbr
             replaced == IF location = abbr \/ EndsWith(location, << ",", " " >> \o abbr)
                         THEN ReplaceAll(location, abbr, Replacements[k].full)
                         ELSE location
         IN  ApplyReplacements(replaced, k + 1)

\* location_inference.py:32-51
normalize_location(location) == ApplyReplacements(StripText(Lower(location)), 1)

\* location_inference.py:53-61: the city, parts[0]
extract_city(location) == StripText(SplitComma(location)[1])

\* location_groups[key].append(entry) on a dict that keeps insertion order
AddToGroup(groups, key, entry) ==
    IF \E i \in DOMAIN groups : groups[i].key = key
    THEN LET i == CHOOSE n \in DOMAIN groups : groups[n].key = key
         IN  [groups EXCEPT ![i].sources = Append(@, entry)]
    ELSE Append(groups, [key |-> key, sources |-> << entry >>])

\* location_inference.py:109-131, for hints whose confidence is a number
RECURSIVE GroupHints(_, _)
GroupHints(hints, groups) ==
    IF hints = <<>> THEN groups
    ELSE LET hint == Head(hints)
             loc == hint.location
             normalized == normalize_location(loc)
             city == extract_city(normalized)
             full == AddToGroup(groups, normalized,
                         [original |-> loc, source_type |-> hint.source_type,
                          confidence_score |-> hint.confidence.value])
             partial == IF city # <<>>
                        THEN AddToGroup(full, city,
                                 [original |-> loc, source_type |-> hint.source_type,
                                  confidence_score |-> (hint.confidence.value * 8) \div 10])
                        ELSE full
         IN  IF loc = <<>> THEN GroupHints(Tail(hints), groups)
             ELSE GroupHints(Tail(hints), partial)

RECURSIVE WeightedSum(_)
WeightedSum(sources) ==
    IF sources = <<>> THEN 0
    ELSE SOURCE_WEIGHTS(Head(sources).source_type) * Head(sources).confidence_score
           + WeightedSum(Tail(sources))

RECURSIVE TotalWeight(_)
TotalWeight(sources) ==
    IF sources = <<>> THEN 0
    ELSE SOURCE_WEIGHTS(Head(sources).source_type) + TotalWeight(Tail(sources))

\* location_inference.py:63-82 and 143-145: total_score as the fraction
\* num / den of thousandths
TotalScore(sources) ==
    LET total_weight == TotalWeight(sources)
        weighted_sum == WeightedSum(sources)
        confidence == Min(weighted_sum, 1000 * total_weight)
        source_count_bonus == Min(Len(sources) * 100, 300)
    IN  [num |-> confidence + source_count_bonus * total_weight, den |-> total_weight]

\* location_inference.py:137-150: the first group of the highest score
RECURSIVE FindBest(_, _, _)
FindBest(groups, k, best) ==
    IF k > Len(groups) THEN best
    ELSE LET total_score == TotalScore(groups[k].sources)
         IN  IF total_score.num * best.score.den > best.score.num * total_score.den
             THEN FindBest(groups, k + 1,
                           [location |-> {groups[k].key}, sources |-> groups[k].sources,
                            score |-> total_score])
             ELSE FindBest(groups, k + 1, best)

\* location_inference.py:84-211.  A confidence that is no number stops the
\* run with TypeError at its first use in arithmetic (line 130 or 76).
LocationInferenceRun(hints) ==
    IF \E k \in DOMAIN hints : hints[k].location # <<>> /\ hints[k].confidence.kind # "float"
    THEN [raised |-> {"TypeError"}, findings |-> <<>>]
    ELSE
    LET location_groups == GroupHints(hints, <<>>)
        best == FindBest(location_groups, 1,
                         [location |-> {}, sources |-> <<>>, score |-> [num |-> 0, den |-> 1]])
        best_sources == best.sources
        severity == IF best.score.num >= 800 * best.score.den THEN "high"
                    ELSE IF best.score.num >= 500 * best.score.den THEN "medium"
                    ELSE "low"
        original_location == best_sources[1].original
        probable ==
            [type |-> "personal_info", severity |-> severity,
             title |-> << "P", "r", "o", "b", "a", "b", "l", "e", " ", "L", "o", "c", "a", "t", "i", "o", "n", ":", " " >> \o TitleText(original_location),
             data |-> [location |-> original_location, normalized |-> best.location,
                       source_count |-> Len(best_sources)]]
        strong_candidates ==
            SelectSeq(location_groups,
                      LAMBDA g : Len(g.sources) >= 2 /\ g.key \notin best.location)
        alternatives == [k \in 1..Min(3, Len(strong_candidates)) |->
                            TitleText(strong_candidates[k].key)]
        alternative ==
            [type |-> "personal_info", severity |-> "low",
             title |-> << "A", "l", "t", "e", "r", "n", "a", "t", "i", "v", "e", " ", "L", "o", "c", "a", "t", "i", "o", "n", "s", ":", " " >> \o JoinComma(alternatives),
             data |-> [alternatives |-> alternatives,
                       primary_location |-> original_location]]
    IN  IF location_groups = <<>> THEN [raised |-> {}, findings |-> <<>>]
        ELSE IF best.location = {} \/ best.score.num * 1000 < 300 * 1000 * best.score.den
        THEN [raised |-> {}, findings |-> <<>>]
        ELSE [raised |-> {},
              findings |-> << probable >> \o
                           (IF strong_candidates # <<>> THEN << alternative >> ELSE <<>>)]

\* A number and a str as values of data["confidence"].
Float(thousandths) == [kind |-> "float", value |-> thousandths]
Str(text) == [kind |-> "str", value |-> text]

\* A record of self.locations.
Hint(location, source_type, confidence) ==
    [location |-> location, source_type |-> source_type, confidence |-> confidence]

SanFranciscoCA == << "S", "a", "n", " ", "F", "r", "a", "n", "c", "i", "s", "c", "o", ",", " ", "C", "A" >>
SF == << "S", "F" >>
Berlin == << "B", "e", "r", "l", "i", "n" >>

\* The hints an aggregation may be given: the three of the triangulation
\* scenario and one without a place.
HintPool ==
    { Hint(SanFranciscoCA, "github_profile", Float(900)),
      Hint(SF, "subreddit_activity", Float(600)),
      Hint(Berlin, "timezone_inference", Float(400)),
      Hint(<<>>, "unknown", Float(500)) }

\* github.py:272-286: the location of a GitHub profile
GitHubLocationFinding(location) ==
    [type |-> "personal_info",
     data |-> [location |-> {location}, bio |-> {}, url |-> {}, username |-> {},
               platform |-> {}, source |-> "github_profile", confidence |-> Str("high")],
     source_url |-> {}]

\* gravatar.py:115-128: the location of a Gravatar profile
GravatarLocationFinding(location) ==
    [type |-> "personal_info",
     data |-> [location |-> {location}, bio |-> {}, url |-> {}, username |-> {},
               platform |-> {}],
     source_url |-> {}]

ReportPool ==
    { GitHubLocationFinding(SanFranciscoCA), GravatarLocationFinding(SF),
      GravatarLocationFinding(Berlin) }

LocationInit ==
    /\ ScanIdle
    /\ risk_findings = <<>>
    /\ risk = <<>>
    /\ risk_before = <<>>
    /\ replay = <<>>
    /\ emitted = {}
    /\ GatewayStarted
    /\ NamesIdle
    /\ location_reports \in SeqsUpTo(ReportPool, MaxLocationReports)
    /\ location_hints \in SeqsUpTo(HintPool, MaxHints)
    /\ location_run = <<>>

\* orchestrator.py:117-124 for a finding with data.location: the record
\* _collect_metadata appends to self.locations
CollectLocation ==
    /\ location_run = <<>>
    /\ location_reports # <<>>
    /\ LET f == Head(location_reports)
           agg == CollectMetadata([EmptyAggregate EXCEPT !.findings = << f >>], f)
           record == agg.locations[1]
       IN  location_hints' = Append(location_hints,
               Hint(CHOOSE l \in record.location : TRUE, record.source_type,
                    record.confidence))
    /\ location_reports' = Tail(location_reports)
    /\ UNCHANGED << scan_state, risk_findings, risk, risk_before, replay, emitted,
                    gateway, spellings, location_run >>

\* orchestrator.py:355-363: if self.locations, LocationInference on them
InferLocation ==
    /\ location_run = <<>>
    /\ location_reports = <<>>
    /\ location_hints # <<>>
    /\ location_run' = LocationInferenceRun(location_hints)
    /\ UNCHANGED << scan_state, risk_findings, risk, risk_before, replay, emitted,
                    gateway, spellings, location_reports, location_hints >>

NextLocation ==
    \/ CollectLocation
    \/ InferLocation

SpecLocation == LocationInit /\ [][NextLocation]_vars

NextClock ==
    \/ Next
    \/ DeadlineFires

\* The same scan with the clock of the scan-wide deadline.
SpecClock == Init /\ [][NextClock]_vars

-----------------------------------------------------------------------------
(* Properties *)

Last(s) == s[Len(s)]

IsPrefix(s, t) == Len(s) <= Len(t) /\ s = SubSeq(t, 1, Len(s))

TerminalTypes == {"complete", "timeout", "error"}

Closed == stream_pc = "closed"

\* The findings the stream has delivered, in order.
DeliveredFindings ==
    LET sent == SelectSeq(events, LAMBDA e : e.type = "finding")
    IN  [k \in 1..Len(sent) |-> sent[k].finding]

\* The findings run() has yielded, in order: the delivered ones and the one
\* the consumer is about to take.
YieldedFindings == DeliveredFindings \o OptSeq(yielded)

\* The probe invocations of one hop, in order.
Calls(h) == SelectSeq(invoked, LAMBDA c : c.hop = h)

\* The usernames hop 2 has expanded.
Expanded ==
    UNION { invoked[k].seed.value :
              k \in { j \in 1..Len(invoked) :
                        invoked[j].seed.kind \in {"username", "platform:username"} } }

PastHop1 == pc \in {"hop2_gate", "hop2", "wayback_gate", "wayback", "hop3_gate",
                    "hop3", "completion", "returned"}

PastHop2 == pc \in {"hop3_gate", "hop3", "completion", "returned"}

\* C1: on the stream of a scan, start is the first event and is emitted once;
\* a terminal event (complete, timeout, error) is the last event of the
\* stream, so there is at most one and nothing follows it; and a stream that
\* is over ends with one.
C1_StartFirstOneTerminalLast ==
    /\ events # <<>> => events[1].type = "start"
    /\ \A k \in 2..Len(events) : events[k].type # "start"
    /\ \A k \in 1..Len(events) : events[k].type \in TerminalTypes => k = Len(events)
    /\ Closed <=> (events # <<>> /\ Last(events).type \in TerminalTypes)

\* A stream that delivered findings and then ended with error, because the
\* log sink failed in the course of the scan.
C1_Witness ==
    /\ Closed
    /\ Last(events).type = "error"
    /\ Len(DeliveredFindings) >= 2

\* C2: the first finding run() yields is the root (type email, no parent),
\* and no other finding of the scan, yielded or collected, has a null parent.
C2_RootFirstAndOnlyOrphan ==
    /\ YieldedFindings # <<>> =>
         /\ YieldedFindings[1].type = "email"
         /\ YieldedFindings[1].parent_id = {}
         /\ YieldedFindings[1].id = root_id
    /\ \A k \in 2..Len(YieldedFindings) : YieldedFindings[k].parent_id # {}
    /\ \A k \in 1..Len(findings) : findings[k].parent_id = {} <=> k = 1

\* A finished scan of depth 3 that delivered the root and three findings of
\* its probes.
C2_Witness ==
    /\ Closed
    /\ depth = 3
    /\ Len(DeliveredFindings) >= 4
    /\ DeliveredFindings[1].type = "email"

\* C3: every delivered finding with a parent has its parent delivered at an
\* earlier position of the stream, whatever the probes returned or raised.
C3_ParentDeliveredEarlier ==
    \A k \in 1..Len(DeliveredFindings) :
        DeliveredFindings[k].parent_id # {} =>
            \E j \in 1..(k - 1) : DeliveredFindings[k].parent_id = {DeliveredFindings[j].id}

\* A child finding delivered in a scan in which a probe had raised before.
C3_Witness ==
    /\ raised # {}
    /\ Len(DeliveredFindings) >= 3
    /\ Last(DeliveredFindings).parent_id # {}

\* The invocations hop 1 makes: every module of the list, on the email.
Hop1Schedule ==
    [k \in 1..Len(hop1_modules) |->
        [module |-> hop1_modules[k], seed |-> EmailSeed, hop |-> 1]]

\* The invocations the hop-2 stage makes: the six steps for each username to
\* check, then the archive lookup for each url to check.
Hop2Schedule ==
    [k \in 1..(Len(usernames_to_check) * Len(hop2_steps)) |->
        LET u == usernames_to_check[((k - 1) \div Len(hop2_steps)) + 1]
            step == hop2_steps[((k - 1) % Len(hop2_steps)) + 1]
        IN  [module |-> step.module, seed |-> UsernameSeed(u, step.platform), hop |-> 2]]
    \o [k \in 1..Len(urls_to_check) |->
        [module |-> "WaybackLookup", seed |-> UrlSeed(urls_to_check[k]), hop |-> 2]]

\* C4: a probe that raises is logged (WARN for a timeout, ERROR otherwise),
\* its exception does not leave run(), every probe after it is still invoked
\* in the order of the schedule, and the stream of the scan ends with
\* complete.
C4_ProbeFailureContained ==
    /\ pc # "raised"
    /\ "Exception" \in raised => "ERROR" \in audit_log
    /\ "TimeoutError" \in raised => "WARN" \in audit_log
    /\ IsPrefix(Calls(1), Hop1Schedule)
    /\ PastHop1 => Calls(1) = Hop1Schedule
    /\ IsPrefix(Calls(2), Hop2Schedule)
    /\ PastHop2 => Calls(2) = Hop2Schedule
    /\ (pc \in {"completion", "returned"} /\ depth >= 3) =>
          /\ Calls(3) # <<>>
          /\ Calls(3)[1].module = "DataBrokerCheck"
          /\ (usernames # {} \/ bios # <<>>) =>
                Last(Calls(3)).module = "ConnectedAccountFinder"
    /\ Closed => Last(events).type = "complete"

\* A scan of depth 3 in which probes raised both kinds of exception in hop 1
\* and which went on through hop 2 and hop 3 to complete.
C4_Witness ==
    /\ Closed
    /\ depth = 3
    /\ raised = {"TimeoutError", "Exception"}
    /\ Len(Calls(1)) = Len(hop1_modules)
    /\ Len(Calls(2)) >= Len(hop2_steps)
    /\ Len(Calls(3)) >= 2
    /\ Last(events).type = "complete"

\* C5: at every depth, when the client keeps reading and every probe
\* invocation is over at some time, the scan reaches its end and complete is
\* emitted, also when no probe yields anything.
C5_ScanTerminates ==
    ([] (phase # "awaiting")) => <> (Closed /\ Last(events).type = "complete")

\* A scan of depth 3 that completed although no probe of any hop yielded a
\* finding: the root is all there is.
C5_Witness ==
    /\ Closed
    /\ depth = 3
    /\ Last(events).type = "complete"
    /\ Len(findings) = 1
    /\ Len(invoked) > Len(hop1_modules)

\* C6 as the specification states it: once the scan-wide deadline has fired
\* no probe of a later hop is started and the stream does not end with
\* complete (it ends with timeout).
C6_DeadlineEndsScan ==
    [][ deadline_fired =>
          /\ (invoked # <<>> /\ Len(invoked') > Len(invoked)) =>
                Last(invoked').hop = Last(invoked).hop
          /\ Len(events') > Len(events) => Last(events').type # "complete"
      ]_vars

\* C7 as the specification states it: a probe that is past its deadline is
\* abandoned, that is the orchestrator has a step to take while it waits.
C7_OverdueProbeAbandoned ==
    probe_overdue => ENABLED OrchestratorStep

\* C8: hop 2 expands at most HOP2_USERNAME_CAP usernames, and only usernames
\* that were in the set when hop 1 ended.
C8_Hop2ExpandsCappedSnapshot ==
    /\ Cardinality(Expanded) <= HOP2_USERNAME_CAP
    /\ Expanded \subseteq hop1_usernames
    /\ SeqToSet(usernames_to_check) \subseteq hop1_usernames
    /\ Len(usernames_to_check) <= HOP2_USERNAME_CAP

\* A finished scan that knew six usernames at the end of hop 1 and expanded
\* five of them.
C8_Witness ==
    /\ pc = "returned"
    /\ Cardinality(hop1_usernames) > HOP2_USERNAME_CAP
    /\ Cardinality(Expanded) = HOP2_USERNAME_CAP

\* The usernames of a set in the order of their discovery (the k-th username
\* discovered has key k).
RECURSIVE DiscoveryOrder(_)
DiscoveryOrder(S) ==
    IF S = {} THEN <<>>
    ELSE LET first == CHOOSE x \in S : \A y \in S : x.key <= y.key
         IN  << first >> \o DiscoveryOrder(S \ {first})

\* C9 as the specification states it: with more than five usernames known at
\* the end of hop 1, the usernames to check are the first five in the order
\* of their insertion.
C9_FirstFiveInInsertionOrder ==
    (pc \in {"hop2", "wayback_gate", "wayback"}
        /\ Cardinality(hop1_usernames) > HOP2_USERNAME_CAP) =>
      usernames_to_check = SubSeq(DiscoveryOrder(hop1_usernames), 1, HOP2_USERNAME_CAP)

\* C10 as the specification states it: the hop-2 stage, with the archive
\* lookup over the urls found, is run exactly when depth >= 2, and hop 3
\* exactly when depth >= 3.
C10_HopsFollowDepth ==
    /\ Calls(2) # <<>> => depth >= 2
    /\ Calls(3) # <<>> => depth >= 3
    /\ (pc = "hop3_gate" /\ depth >= 2) =>
          /\ usernames # {} => Expanded # {}
          /\ found_urls # <<>> => \E k \in 1..Len(invoked) : invoked[k].module = "WaybackLookup"
    /\ (pc = "completion" /\ depth >= 3) => Calls(3) # <<>>

\* The registry of a hop, and the position of a probe in it.
Registry(h) == IF h = 1 THEN HOP1_MODULES ELSE IF h = 2 THEN HOP2_MODULES ELSE HOP3_MODULES

Registration(h, module) ==
    CHOOSE k \in 1..Len(Registry(h)) : Registry(h)[k] = module

\* C11: a probe is invoked only when every finding produced so far has been
\* delivered, and never in an earlier hop than a probe invoked before it, so
\* hop N is over, its findings delivered, before hop N+1 starts; within a hop
\* the probes are invoked in the order of their registration (in hop 2: for
\* each username in turn, and the archive lookup after all of them).
C11_HopsInOrder ==
    [][ Len(invoked') > Len(invoked) =>
          LET call == Last(invoked')
          IN  /\ DeliveredFindings = findings
              /\ \A k \in 1..Len(invoked) : invoked[k].hop <= call.hop
              /\ (invoked # <<>> /\ Last(invoked).hop = call.hop) =>
                    LET before == Registration(call.hop, Last(invoked).module)
                        after == Registration(call.hop, call.module)
                    IN  IF call.hop # 2 THEN before < after
                        ELSE IF Last(invoked).seed.value = call.seed.value
                        THEN before <= after
                        ELSE Last(invoked).module = "WaybackLookup" =>
                                call.module = "WaybackLookup"
      ]_vars

\* A scan in hop 3 after a hop 2 that expanded a username, with findings of
\* the probes delivered.
C11_Witness ==
    /\ Len(Calls(1)) = Len(HOP1_MODULES)
    /\ Len(Calls(2)) >= Len(hop2_steps)
    /\ Len(Calls(3)) >= 2
    /\ Len(DeliveredFindings) >= 3


\* The scanned address as typed: its local part followed by "@".
ClearText == Chars(email.local) \o << "@" >>

\* C12 as the specification states it: no emitted finding has the clear-text
\* email in its title or description, and the masked form appears in the
\* title of the root only, also when a profile displays the scanned address.
C12_EmailNeverInClear ==
    \A k \in 1..Len(YieldedFindings) :
        LET f == YieldedFindings[k]
        IN  /\ ~ Contains(f.title, ClearText)
            /\ ~ Contains(f.description, ClearText)
            /\ k = 1 => f.title = MaskEmail(EmailText(email))
            /\ k > 1 => ~ Contains(f.title, MaskEmail(EmailText(email)))

\* C13 as the specification states it: the terminal event of a scan, whichever
\* it is, carries the list of the findings accumulated up to that point.
C13_TerminalCarriesFindings ==
    Closed =>
        LET terminal == Last(events)
        IN  /\ "results" \in DOMAIN terminal
            /\ terminal.results.findings = findings


\* Section 4.6 of the specification: a keyword occurs in the lower-cased
\* titles and descriptions of the list.
Mentions(fs, keyword) ==
    \E k \in 1..Len(fs) :
        \/ Contains(Lower(fs[k].title), keyword)
        \/ Contains(Lower(fs[k].description), keyword)

\* Section 4.6 of the specification: the bonuses of a list.
Bonuses(fs) ==
    (IF Mentions(fs, << "p", "a", "s", "s", "w", "o", "r", "d" >>)
        /\ (Mentions(fs, << "e", "x", "p", "o", "s", "e", "d" >>)
            \/ Mentions(fs, << "b", "r", "e", "a", "c", "h" >>))
     THEN 15 ELSE 0)
    + (IF Mentions(fs, << "a", "d", "d", "r", "e", "s", "s" >>)
          /\ (Mentions(fs, << "h", "o", "m", "e" >>)
              \/ Mentions(fs, << "s", "t", "r", "e", "e", "t" >>)
              \/ Mentions(fs, << "r", "e", "s", "i", "d", "e", "n", "c", "e" >>))
       THEN 15 ELSE 0)
    + (IF Mentions(fs, << "p", "h", "o", "n", "e" >>) THEN 10 ELSE 0)
    + (IF (\E k \in 1..Len(fs) :
              /\ Contains(Lower(fs[k].title), << "n", "a", "m", "e" >>)
              /\ Contains(Lower(fs[k].title), << ":" >>))
          /\ (\E k \in 1..Len(fs) :
                 Contains(Lower(fs[k].title), << "l", "o", "c", "a", "t", "i", "o", "n" >>))
       THEN 5 ELSE 0)
    + (IF Count(fs, LAMBDA f : f.type = "account") > 10 THEN 5 ELSE 0)

C15_DepthMonotone ==
    \A low \in emitted : \A high \in emitted :
        low.depth <= high.depth => low.findings \subseteq high.findings

-----------------------------------------------------------------------------
(* The scan token and the scan cooldown *)

\* C16: a scan token is accepted by validate_scan_token at most once, and
\* never later than TOKEN_EXPIRY_SECONDS after confirm_code issued it: no
\* token occurs twice among the accepted presentations, and each accepted
\* presentation is of an issued token, for the email it was issued to, no
\* later than ten minutes after its issue.
C16_TokenOnceWithinTenMinutes ==
    /\ \A i, j \in DOMAIN accepted :
          accepted[i].token = accepted[j].token => i = j
    /\ \A i \in DOMAIN accepted :
          \E grant \in issued :
              /\ grant.token = accepted[i].token
              /\ grant.email = accepted[i].email
              /\ accepted[i].at <= grant.at + TOKEN_EXPIRY_SECONDS

\* A token was accepted at the last moment of its life, and a presentation
\* after that acceptance has been rejected.
C16_Witness ==
    /\ \E i \in DOMAIN accepted : \E grant \in issued :
          /\ grant.token = accepted[i].token
          /\ accepted[i].at = grant.at + TOKEN_EXPIRY_SECONDS
    /\ response = [route |-> "scan", status |-> 401]
    /\ scan_tokens = {}

\* C17: for any email at most one /scan request is admitted in any 24 hours:
\* a /scan request whose token is valid, for an email that had a scan
\* admitted less than 24 hours earlier, is answered 429 and starts no scan.
C17_OneScanPerEmailPerDay ==
    [][ accepted' # accepted =>
          LET request == Last(accepted')
              recent == { i \in DOMAIN admitted :
                            /\ admitted[i].email = request.email
                            /\ request.at - admitted[i].at
                                 < RATE_LIMIT_SCAN_COOLDOWN_HOURS * 3600 }
          IN  recent # {} => /\ response'.status = 429
                             /\ admitted' = admitted ]_vars

\* A second scan of an email was refused with 429 while its first was less
\* than a day old.
C17_Witness ==
    /\ response = [route |-> "scan", status |-> 429]
    /\ Len(accepted) = 2
    /\ accepted[1].email = accepted[2].email
    /\ Len(admitted) = 1
    /\ admitted[1].at = 0
    /\ now = TOKEN_EXPIRY_SECONDS


-----------------------------------------------------------------------------
(* Finding ids *)

\* C18: the ids of the findings emitted in one scan are pairwise distinct:
\* the number of distinct ids equals the number of findings run() has
\* yielded, at every point of the scan.
C18_FindingIdsDistinct ==
    LET fs == YieldedFindings
    IN  Cardinality({ fs[k].id : k \in DOMAIN fs }) = Len(fs)

\* A finished scan that delivered the root, findings of hop 1 and findings of
\* a hop-2 probe.
C18_Witness ==
    /\ Closed
    /\ Len(DeliveredFindings) = MaxFindings
    /\ Len(Calls(1)) > 0
    /\ Len(Calls(2)) > 0
    /\ \A k \in DOMAIN DeliveredFindings : DeliveredFindings[k] = findings[k]


-----------------------------------------------------------------------------
(* Username hygiene *)

\* The platforms whose usernames do not distinguish case
\* (api.github.com/users/{username}, username_checker.py:34).
CaseInsensitivePlatforms == {"GitHub"}

\* The characters of [A-Za-z0-9_.-] the usernames of the model are written in.
UsernameAlphabet ==
    {"a", "b", "e", "r", "s", "u", "A", "U"} \cup { Digit(k) : k \in 0..9 }

\* ^[A-Za-z0-9_.-]{2,30}$
MatchesUsernameRegex(u) ==
    /\ Len(Text(u)) \in 2..30
    /\ SeqToSet(Text(u)) \subseteq UsernameAlphabet

\* The findings emitted so far: those of hop 1 that were received, and those
\* of UsernameChecker.
EmittedWithUsername ==
    { f \in SeqToSet(collector.agg.findings) : f.data.username # {} }

\* C19: every emitted finding that carries data.username has a username of 2
\* to 30 characters of [A-Za-z0-9_.-], lower-cased when its platform is
\* case-insensitive; a username hop 1 reported in mixed case is not emitted
\* in mixed case by UsernameChecker in hop 2.
C19_EmittedUsernamesNormalised ==
    \A f \in EmittedWithUsername : \A u \in f.data.username :
        /\ MatchesUsernameRegex(u)
        /\ f.data.platform \cap CaseInsensitivePlatforms # {}
             => Text(u) = Lower(Text(u))

\* C20: after _collect_metadata has processed the findings received so far
\* (and run() has added the local part of the address), the username set
\* holds only lower-cased usernames of length >= 3, each the data.username
\* of a received finding or the local part of the address, and no two of
\* them differ only by letter case.
C20_UsernameSetLowerCased ==
    LET set == collector.agg.usernames
    IN  /\ \A u \in set :
              /\ Len(Text(u)) >= 3
              /\ Text(u) = Lower(Text(u))
              /\ \/ \E f \in EmittedWithUsername : u \in f.data.username
                 \/ collector.prefix /\ u = Spelt(collector.address.local, FALSE)
        /\ \A u, v \in set : Lower(Text(u)) = Lower(Text(v)) => u = v


-----------------------------------------------------------------------------
(* Delivery order *)

\* C21: at every point of a scan the findings delivered to the caller are, in
\* order, a prefix of self.findings; when the scan completes the two
\* sequences are equal; and the findings of a probe are delivered in the
\* order in which the probe produced them (ids are given in that order).
C21_DeliveredPrefixOfFindings ==
    /\ IsPrefix(YieldedFindings, findings)
    /\ (Closed /\ Last(events).type = "complete") => DeliveredFindings = findings
    /\ \A i, j \in DOMAIN DeliveredFindings :
          i < j => DeliveredFindings[i].id < DeliveredFindings[j].id

\* A probe has produced two findings, the first is delivered and the second
\* is not yet.
C21_Witness ==
    /\ Len(invoked) = 1
    /\ Len(findings) = 3
    /\ Len(DeliveredFindings) = 2
    /\ Len(results) = 1
    /\ yielded = {}


-----------------------------------------------------------------------------
(* Back-pressure *)

\* C22: producers block while the caller does not consume: a finding is
\* produced (appended to self.findings by a probe's run) only when the caller
\* has consumed every finding produced before it, so one at a time; hence no
\* probe is started while a produced finding is unconsumed.
C22_ProducersBlock ==
    [][ Len(findings') > Len(findings) =>
            /\ DeliveredFindings = findings
            /\ Len(findings') = Len(findings) + 1 ]_vars


-----------------------------------------------------------------------------
(* Location aggregation *)

\* A hint supports a location when the location is its normalised form or
\* its city.
Supports(hint, location) ==
    /\ hint.location # <<>>
    /\ \/ normalize_location(hint.location) = location
       \/ extract_city(normalize_location(hint.location)) = location

Supporters(location) ==
    { i \in DOMAIN location_hints : Supports(location_hints[i], location) }

\* The hints of the triangulation scenario.
Triangulation ==
    << Hint(SanFranciscoCA, "github_profile", Float(900)),
       Hint(SF, "subreddit_activity", Float(600)),
       Hint(Berlin, "timezone_inference", Float(400)) >>

ProbableLocations ==
    SelectSeq(location_run.findings,
              LAMBDA f : SubSeq(f.title, 1, 19) = << "P", "r", "o", "b", "a", "b", "l", "e", " ", "L", "o", "c", "a", "t", "i", "o", "n", ":", " " >>)

AlternativeLocations ==
    SelectSeq(location_run.findings,
              LAMBDA f : SubSeq(f.title, 1, 23) = << "A", "l", "t", "e", "r", "n", "a", "t", "i", "v", "e", " ", "L", "o", "c", "a", "t", "i", "o", "n", "s", ":", " " >>)

\* C23: the location aggregator emits one 'Probable Location' finding whose
\* source count is the number of hints that support the chosen location, and
\* an 'Alternative Locations' finding when another location is supported by
\* at least two hints; for the three hints of the triangulation scenario the
\* best-location finding references exactly 2 sources and the alternatives
\* finding mentions Berlin.
C23_LocationAggregation ==
    (location_run # <<>> /\ location_run.raised = {}) =>
        /\ Len(ProbableLocations) <= 1
        /\ \A k \in DOMAIN ProbableLocations :
              \A chosen \in ProbableLocations[k].data.normalized :
                  /\ ProbableLocations[k].data.source_count
                        = Cardinality(Supporters(chosen))
                  /\ (AlternativeLocations # <<>>) <=>
                        \E i \in DOMAIN location_hints :
                        \E other \in { normalize_location(location_hints[i].location),
                                       extract_city(normalize_location(location_hints[i].location)) } :
                            /\ other # chosen
                            /\ Cardinality(Supporters(other)) >= 2
        /\ location_hints = Triangulation =>
              /\ Len(ProbableLocations) = 1
              /\ ProbableLocations[1].data.source_count = 2
              /\ Len(AlternativeLocations) = 1
              /\ Contains(AlternativeLocations[1].title, << "B", "e", "r", "l", "i", "n" >>)


\* C24: every record _collect_metadata appends to self.locations has a
\* confidence that is a number in [0,1] (data.confidence when present,
\* otherwise 0.5), so that LocationInference can score the list it is given.
C24_LocationConfidenceIsNumber ==
    /\ \A k \in DOMAIN location_hints :
          /\ location_hints[k].confidence.kind = "float"
          /\ location_hints[k].confidence.value \in 0..1000
    /\ location_run # <<>> => location_run.raised = {}


-----------------------------------------------------------------------------
(* Findings of a probe that raised *)

\* C25: the findings a probe yielded before it raised are kept.  At every
\* call of a probe, whatever its outcome (raising included): the findings
\* produced before the call have all been delivered to the caller; the
\* findings the probe yields are appended to self.findings, have gone through
\* _collect_metadata, and are the results run() goes on to yield.
C25_FindingsBeforeRaiseKept ==
    [][ invoked' # invoked =>
          LET new == SubSeq(findings', Len(findings) + 1, Len(findings'))
          IN  /\ DeliveredFindings = findings
              /\ IsPrefix(findings, findings')
              /\ \A k \in DOMAIN new :
                    /\ { u \in new[k].data.username : u.len >= 3 } \subseteq usernames'
                    /\ new[k].data.bio \subseteq SeqToSet(bios')
                    /\ new[k].data.url \subseteq SeqToSet(found_urls')
              /\ phase' = "awaiting" \/ results' = new ]_vars

\* The first probe yielded two findings and raised; both have been delivered
\* and the second probe is about to be called.
C25_Witness ==
    /\ Len(invoked) = 1
    /\ raised # {}
    /\ Len(findings) = 3
    /\ DeliveredFindings = findings
    /\ yielded = {}
    /\ phase = "call"
    /\ mi = 2


-----------------------------------------------------------------------------
(* Monotonicity of the risk score *)

\* The bands, from the lowest.
Band(level) ==
    CASE level = "LOW" -> 0 [] level = "MEDIUM" -> 1 [] level = "HIGH" -> 2
      [] level = "CRITICAL" -> 3

\* C26: calculate_risk_score is monotone: for a list with one finding
\* appended it returns a score no lower, and a label of no lower band, than
\* for the list before.
C26_RiskScoreMonotone ==
    risk_before # <<>> =>
        /\ risk[1] >= risk_before[1]
        /\ Band(risk[2]) >= Band(risk_before[2])

\* A finding appended to a list of more than two raised the score and moved
\* the label to a higher band.
C26_Witness ==
    /\ risk_before # <<>>
    /\ risk[1] > risk_before[1]
    /\ Band(risk[2]) > Band(risk_before[2])
    /\ Len(risk_findings) > 3



-----------------------------------------------------------------------------
(* The verification code *)

\* A call of verify for the address e returns in this step.
VerifyReturned(e) == verdicts'[e] # verdicts[e]

\* The verify that returns in this step was about the code the last one
\* was about: no code has been issued in between.
SameCode(e) == verdicts[e].nr > 0 /\ verdicts'[e].issue = verdicts[e].issue

\* C27: for one issued verification code at most one call of verify returns
\* success, however the calls of verify and create of two threads
\* interleave: once a verify of an issued code has succeeded, every later
\* verify for that address fails until a new code is issued.
C27_OneSuccessPerIssuedCode ==
    [][ \A e \in Emails :
          (VerifyReturned(e) /\ SameCode(e) /\ verdicts[e].successes >= 1)
          => /\ ~ verdicts'[e].success
             /\ verdicts'[e].successes = 1 ]_vars

\* A verify that had passed _cleanup before the other thread's verify
\* succeeded found the used record and was refused, although it carried the
\* issued code.
C27_Witness ==
    \E e \in Emails :
        /\ verdicts[e].error = "Code already used"
        /\ verdicts[e].successes = 1
        /\ \A r \in verdicts[e].found : r.code_hash = verdicts[e].code

\* C28 as stated: verify compares at most VERIFICATION_MAX_ATTEMPTS times per
\* issued code, and once the fifth attempt is counted, the next verify
\* deletes the record and fails with "Too many attempts".
C28_Original ==
    [][ \A e \in Emails :
          VerifyReturned(e) =>
             /\ verdicts'[e].compared <= VERIFICATION_MAX_ATTEMPTS
             /\ ( /\ SameCode(e)
                  /\ verdicts[e].error \in {"", "Invalid code"}
                  /\ verdicts[e].compared = VERIFICATION_MAX_ATTEMPTS )
                => /\ verdicts'[e].error = "Too many attempts"
                   /\ verdicts'[e].removed ]_vars

\* C28, amended: verify compares at most VERIFICATION_MAX_ATTEMPTS times per
\* issued code, and once the fifth attempt is counted without a success,
\* the next verify, if it still finds the record and the code has not
\* expired, deletes the record and fails with "Too many attempts", whatever
\* code it carries.
C28_AttemptsBounded ==
    [][ \A e \in Emails :
          VerifyReturned(e) =>
             /\ verdicts'[e].compared <= VERIFICATION_MAX_ATTEMPTS
             /\ ( /\ SameCode(e)
                  /\ verdicts[e].error \in {"", "Invalid code"}
                  /\ verdicts[e].compared = VERIFICATION_MAX_ATTEMPTS
                  /\ verdicts[e].successes = 0
                  /\ verdicts'[e].found # {}
                  /\ \A r \in verdicts'[e].found :
                        ~ (r.expires_at < verdicts'[e].at) )
                => /\ verdicts'[e].error = "Too many attempts"
                   /\ verdicts'[e].removed ]_vars

\* After five wrong codes a verify carrying the issued code was refused
\* with "Too many attempts" and the record was deleted.
C28_Witness ==
    \E e \in Emails :
        /\ verdicts[e].error = "Too many attempts"
        /\ verdicts[e].compared = VERIFICATION_MAX_ATTEMPTS
        /\ verdicts[e].successes = 0
        /\ verdicts[e].code \in Drawn
        /\ verdicts[e].removed
        /\ verification_store[e] = {}


-----------------------------------------------------------------------------
(* The lockout of /verify/confirm *)

\* The lockout of the key of e is running.
LockedOut(e) == \E l \in attempt_limiter[e].lockout_until : l > now

\* The timestamps of the key of e that lie in the window.
InWindow(e) ==
    SelectSeq(attempt_limiter[e].timestamps,
              LAMBDA x : x > now - VERIFICATION_CODE_EXPIRY_SECONDS)

\* C29: with apply_lockout, the request that finds max_requests timestamps
\* in the window starts a lockout of lockout_seconds and is denied without
\* recording a timestamp; while lockout_until lies ahead every request for
\* the key is denied (429, verify is not called, no token is issued), and
\* it leaves the timestamps and lockout_until of the key as they were.
C29_LockoutDeniesWithoutExtending ==
    [][ \A e \in Emails :
          (attempt' # attempt /\ attempt'.email = {e}) =>
             /\ (~ LockedOut(e) /\ Len(InWindow(e)) >= VERIFICATION_MAX_ATTEMPTS)
                => /\ response' = [route |-> "confirm", status |-> 429]
                   /\ attempt_limiter'[e].lockout_until
                        = {now + VERIFICATION_LOCKOUT_SECONDS}
                   /\ attempt_limiter'[e].timestamps = InWindow(e)
             /\ LockedOut(e)
                => /\ response' = [route |-> "confirm", status |-> 429]
                   /\ attempt_limiter'[e] = attempt_limiter[e]
                   /\ verification_store' = verification_store
                   /\ issued' = issued ]_vars

\* A request made 600 seconds into a lockout of 900 seconds was denied, and
\* the lockout still ends when it was to end.
C29_Witness ==
    \E e \in Emails :
        /\ attempt.email = {e}
        /\ attempt.at = TOKEN_EXPIRY_SECONDS
        /\ attempt_limiter[e].lockout_until = {VERIFICATION_LOCKOUT_SECONDS}
        /\ Len(attempt_limiter[e].timestamps) = VERIFICATION_MAX_ATTEMPTS
        /\ response = [route |-> "confirm", status |-> 429]


-----------------------------------------------------------------------------
(* The scan token of a refused scan *)

\* C30: a /scan request with a valid token consumes the token before the
\* scan rate limit is evaluated: whether the request is answered 200 or 429,
\* its token is gone from _scan_tokens afterwards, and a token that was
\* accepted once, even by a request answered 429, is never accepted again;
\* a scan starts only in a request whose token has just been accepted.
C30_RefusedScanConsumesToken ==
    [][ /\ accepted' # accepted =>
             LET request == Last(accepted')
             IN  /\ ~ \E x \in scan_tokens' : x.token = request.token
                 /\ \A i \in DOMAIN accepted : accepted[i].token # request.token
        /\ admitted' # admitted => accepted' # accepted ]_vars

\* A request whose token had not yet expired was answered 429, and its token
\* is gone.
C30_Witness ==
    /\ response = [route |-> "scan", status |-> 429]
    /\ accepted # <<>>
    /\ \E grant \in issued :
          /\ grant.token = Last(accepted).token
          /\ Last(accepted).at = now
          /\ now < grant.at + TOKEN_EXPIRY_SECONDS
    /\ ~ \E x \in scan_tokens : x.token = Last(accepted).token

=============================================================================
